---------------------------- MODULE Spec2Model ----------------------------
(***************************************************************************)
(* A model of the TinyGo optimizer driver (compiler/optimizer.go), of its  *)
(* Go-specific IR rewrites and of the precise mark-sweep collector         *)
(* (src/runtime/gc_precise.go).                                            *)
(*                                                                         *)
(* Three groups of variables, one per part of the program:                 *)
(*   - the driver Compiler.Optimize: its position, the passes it has run,  *)
(*     whether the module currently passes the LLVM verifier;              *)
(*   - the IR module the rewrite passes work on;                           *)
(*   - the collector's heap, globals and stack.                            *)
(* Each specification below moves one group and leaves the others idle.    *)
(***************************************************************************)
EXTENDS Integers, Sequences, FiniteSets, TLC

VARIABLES
    \* ---- Compiler.Optimize ----
    cfg,        \* the arguments and compiler settings of this run
    pc,         \* position in Optimize
    steps,      \* names of the passes run so far, in order
    valid,      \* would c.Verify() accept the module as it is now?
    verdicts,   \* the outcome of each c.Verify() call so far
    lgErr,      \* what c.LowerGoroutines() returned ("nil" or an error)
    result,     \* what Optimize returned ("none" while running)
    \* ---- the IR module and the rewrite passes ----
    mod,        \* c.mod: instructions, their order, function declarations
    mod0,       \* the module as the pass that ran found it
    phase,      \* "input" while the module is built, then the pass that ran
    \* ---- the collector ----
    mem,        \* the words of memory: tracked globals, stack, heap pool
    blockState, \* the state of every heap block
    trackedGlobalsBitmap,  \* the bytes of runtime.trackedGlobalsBitmap
    sp,         \* the machine's stack pointer (the stack grows downwards)
    afterSweep, \* the block states as the last sweep left them
    halted,     \* has the runtime stopped the program (out of memory)?
    rtCall,     \* the runtime call in progress: where it is, its arguments,
                \* the functions it has entered so far
    scanned,    \* runtime.trackedGlobalsLength, and what the last markGlobals
                \* read: bitmap bytes (indices) and global slots (addresses)
    heap,       \* the heap the linker laid out and what init() made of it
    marking     \* the mark phase in progress: where it is, the markRoots
                \* calls on the stack, how often each object was scanned

optVars == <<cfg, pc, steps, valid, verdicts, lgErr, result>>

irVars == <<mod, mod0, phase>>

gcVars == <<mem, blockState, trackedGlobalsBitmap, sp, afterSweep, halted, rtCall,
           scanned, heap, marking>>

\* The variables Compiler.Optimize's steps leave alone in this model, those
\* the rewrite passes leave alone and those the collector leaves alone.
notOptVars == <<irVars, gcVars>>
notIRVars == <<optVars, gcVars>>
notGCVars == <<optVars, irVars, rtCall, scanned, heap, marking>>

vars == <<cfg, pc, steps, valid, verdicts, lgErr, result, mod, mod0, phase,
          mem, blockState, trackedGlobalsBitmap, sp, afterSweep, halted, rtCall,
          scanned, heap, marking>>

-----------------------------------------------------------------------------
(***************************************************************************)
(* Compiler.Optimize                                                       *)
(***************************************************************************)

\* Largest inliner threshold tried (0 disables the inliner).
MaxInlinerThreshold == 1

OptLevels == 0 .. 3
SizeLevels == 0 .. 2
PanicStrategies == {"print", "trap"}

\* The errors c.LowerGoroutines() may return.
GoroutineErrors == {"lower-goroutines: A", "lower-goroutines: B"}

ErrOptimizations == "optimizations caused a verification failure"
ErrGC == "GC pass caused a verification failure"

\* The passes added to goPasses, in the order they are added.
GoPassList ==
    << "global-optimizer", "global-dce", "constant-propagation",
       "aggressive-dce", "function-attrs" >>

Configs ==
    [ optLevel : OptLevels, sizeLevel : SizeLevels,
      inlinerThreshold : 0 .. MaxInlinerThreshold,
      panicStrategy : PanicStrategies, gcPrecise : BOOLEAN ]

OptInit ==
    /\ cfg \in Configs
    /\ pc = "builder"
    /\ steps = << >>
    /\ valid = TRUE
    /\ verdicts = << >>
    /\ lgErr = "nil"
    /\ result = "none"

\* A pass that rewrites the module: what the verifier makes of the outcome is
\* not decided by the driver.
Mutate(name, next) ==
    /\ steps' = Append(steps, name)
    /\ valid' \in BOOLEAN
    /\ pc' = next
    /\ UNCHANGED <<notOptVars, cfg, verdicts, lgErr, result>>

\* return err / return nil
Return(err) ==
    /\ pc' = "done"
    /\ result' = err

\* lines 12-19: configure the pass manager builder
ConfigureBuilder ==
    /\ pc = "builder"
    /\ steps' = steps
                  \o (IF cfg.inlinerThreshold # 0 THEN << "use-inliner" >> ELSE << >>)
                  \o << "coroutine-extension-points" >>
    /\ pc' = IF cfg.panicStrategy = "trap" THEN "trap" ELSE "funcPasses"
    /\ UNCHANGED <<notOptVars, cfg, valid, verdicts, lgErr, result>>

\* lines 21-23; replacePanicsWithTrap panics on a use that is not a call
ReplacePanics ==
    /\ pc = "trap"
    /\ \/ Mutate("replace_panics_with_trap", "funcPasses")
       \/ /\ pc' = "panicked"
          /\ UNCHANGED <<notOptVars, cfg, steps, valid, verdicts, lgErr, result>>

\* The Go rewrites run at every opt_level.
FuncPassesThenGoPasses ==
    /\ pc = "funcPasses"
    /\ Mutate("function-passes", "goPasses")

\* lines 25-33
FuncPasses ==
    /\ pc = "funcPasses"
    /\ Mutate("function-passes", IF cfg.optLevel > 0 THEN "goPasses" ELSE "interfaces0")

\* goPasses.Run(c.mod): all five passes, in the order they were added
RunGoPasses(next) ==
    /\ steps' = steps \o GoPassList
    /\ valid' \in BOOLEAN
    /\ pc' = next
    /\ UNCHANGED <<notOptVars, cfg, verdicts, lgErr, result>>

\* lines 36-44
GoPasses1 == pc = "goPasses" /\ RunGoPasses("maps")

\* line 47
StepOptimizeMaps == pc = "maps" /\ Mutate("optimize_maps", "s2b")

\* line 48; OptimizeStringToBytes panics on an extract of unknown type
StepStringToBytes1 ==
    /\ pc = "s2b"
    /\ \/ Mutate("optimize_string_to_bytes", "allocs")
       \/ /\ pc' = "panicked"
          /\ UNCHANGED <<notOptVars, cfg, steps, valid, verdicts, lgErr, result>>

\* line 49
StepAllocs1 == pc = "allocs" /\ Mutate("optimize_allocs", "interfaces")

\* line 50
StepLowerInterfaces == pc = "interfaces" /\ Mutate("lower_interfaces", "funcValues")

\* line 51
StepLowerFuncValues == pc = "funcValues" /\ Mutate("lower_func_values", "goPasses2")

\* The second module pass manager run left out.
GoPasses2Omitted ==
    /\ pc = "goPasses2"
    /\ pc' = "allocs2"
    /\ UNCHANGED <<notOptVars, cfg, steps, valid, verdicts, lgErr, result>>

\* line 56
GoPasses2 == pc = "goPasses2" /\ RunGoPasses("allocs2")

\* line 59
StepAllocs2 == pc = "allocs2" /\ Mutate("optimize_allocs", "s2b2")

\* line 60
StepStringToBytes2 ==
    /\ pc = "s2b2"
    /\ \/ Mutate("optimize_string_to_bytes", "isnil")
       \/ /\ pc' = "panicked"
          /\ UNCHANGED <<notOptVars, cfg, steps, valid, verdicts, lgErr, result>>

\* lines 62-76
StepLowerIsNil == pc = "isnil" /\ Mutate("lower_isnil", "goroutines")

\* The error of c.LowerGoroutines() dropped.
RunLowerGoroutinesErrDropped ==
    /\ steps' = Append(steps, "lower_goroutines")
    /\ valid' \in BOOLEAN
    /\ \E err \in GoroutineErrors \cup {"nil"} :
         /\ lgErr' = err
         /\ pc' = "verify"
         /\ result' = result
    /\ UNCHANGED <<notOptVars, cfg, verdicts>>

\* c.LowerGoroutines() followed by "if err != nil { return err }"
RunLowerGoroutines ==
    /\ steps' = Append(steps, "lower_goroutines")
    /\ valid' \in BOOLEAN
    /\ \E err \in GoroutineErrors \cup {"nil"} :
         /\ lgErr' = err
         /\ IF err # "nil"
               THEN Return(err)
               ELSE pc' = "verify" /\ result' = result
    /\ UNCHANGED <<notOptVars, cfg, verdicts>>

\* lines 78-81
StepLowerGoroutines == pc = "goroutines" /\ RunLowerGoroutines

\* line 84
StepLowerInterfaces0 == pc = "interfaces0" /\ Mutate("lower_interfaces", "funcValues0")

\* line 85
StepLowerFuncValues0 == pc = "funcValues0" /\ Mutate("lower_func_values", "goroutines0")

\* lines 86-89
StepLowerGoroutines0 == pc = "goroutines0" /\ RunLowerGoroutines

\* c.Verify(): an error exactly when the verifier rejects the module
Verify == IF valid THEN "nil" ELSE "invalid module"

\* The outcome of the first verification ignored.
VerifyOptimizationsIgnored ==
    /\ pc = "verify"
    /\ steps' = Append(steps, "verify")
    /\ verdicts' = Append(verdicts, Verify)
    /\ pc' = IF cfg.sizeLevel >= 2 THEN "optsize" ELSE "funcPasses2"
    /\ UNCHANGED <<notOptVars, cfg, valid, lgErr, result>>

\* lines 91-93
VerifyOptimizations ==
    /\ pc = "verify"
    /\ steps' = Append(steps, "verify")
    /\ verdicts' = Append(verdicts, Verify)
    /\ IF Verify # "nil"
          THEN Return(ErrOptimizations)
          ELSE /\ pc' = IF cfg.sizeLevel >= 2 THEN "optsize" ELSE "funcPasses2"
               /\ result' = result
    /\ UNCHANGED <<notOptVars, cfg, valid, lgErr>>

\* lines 95-103
AddOptSize == pc = "optsize" /\ Mutate("optsize", "funcPasses2")

\* lines 105-110
FuncPassesAgain == pc = "funcPasses2" /\ Mutate("function-passes", "modPasses")

\* lines 112-116
ModPasses ==
    /\ pc = "modPasses"
    /\ Mutate("module-passes", IF cfg.gcPrecise THEN "bitmap" ELSE "return")

\* line 119
AddGlobalsBitmap == pc = "bitmap" /\ Mutate("add_globals_bitmap", "verifyGC")

\* lines 120-122
VerifyGC ==
    /\ pc = "verifyGC"
    /\ steps' = Append(steps, "verify")
    /\ verdicts' = Append(verdicts, Verify)
    /\ IF Verify # "nil"
          THEN Return(ErrGC)
          ELSE pc' = "return" /\ result' = result
    /\ UNCHANGED <<notOptVars, cfg, valid, lgErr>>

\* line 125
ReturnNil ==
    /\ pc = "return"
    /\ Return("ok")
    /\ UNCHANGED <<notOptVars, cfg, steps, valid, verdicts, lgErr>>

OptNext ==
    \/ ConfigureBuilder
    \/ ReplacePanics
    \/ FuncPasses
    \/ GoPasses1
    \/ StepOptimizeMaps
    \/ StepStringToBytes1
    \/ StepAllocs1
    \/ StepLowerInterfaces
    \/ StepLowerFuncValues
    \/ GoPasses2
    \/ StepAllocs2
    \/ StepStringToBytes2
    \/ StepLowerIsNil
    \/ StepLowerGoroutines
    \/ StepLowerInterfaces0
    \/ StepLowerFuncValues0
    \/ StepLowerGoroutines0
    \/ VerifyOptimizations
    \/ AddOptSize
    \/ FuncPassesAgain
    \/ ModPasses
    \/ AddGlobalsBitmap
    \/ VerifyGC
    \/ ReturnNil

-----------------------------------------------------------------------------
(***************************************************************************)
(* The IR module: values, instructions, the use-graph                      *)
(***************************************************************************)

\* A value is an instruction's result or something that is no instruction:
\* a function, a constant, a parameter.
InstV(i) == [k |-> "inst", n |-> i, ty |-> "", name |-> ""]
Func(name) == [k |-> "func", n |-> 0, ty |-> "fn", name |-> name]
ConstInt(n) == [k |-> "const", n |-> n, ty |-> "i32", name |-> ""]
ConstPointerNull(ty) == [k |-> "null", n |-> 0, ty |-> ty, name |-> ""]
ZeroValue(ty) == [k |-> "zero", n |-> 0, ty |-> ty, name |-> ""]
Global(name, ty) == [k |-> "global", n |-> 0, ty |-> ty, name |-> name]
Param(name, ty) == [k |-> "param", n |-> 0, ty |-> ty, name |-> name]

IsAConstant(v) == v.k \in {"const", "null", "zero", "global", "func"}
IsAFunction(v) == v.k = "func"

PointerTypes == {"i8*", "T*", "array*", "hashmap*"}
IntegerTypes == {"i1", "i32"}

\* Declarations with the parameter attributes the analyses ask for: index 0
\* is the return value, index i + 1 parameter i.
Decl(paramAttrs) ==
    [nparams |-> Len(paramAttrs),
     attrs   |-> [i \in 0 .. Len(paramAttrs) |->
                    IF i = 0 THEN {} ELSE paramAttrs[i]]]

Declarations ==
    [name \in { "runtime.alloc", "runtime.hashmapMake", "runtime.hashmapBinarySet",
                "runtime.hashmapStringSet", "runtime.hashmapBinaryGet",
                "runtime.stringToBytes", "runtime.isnil",
                "llvm.trap", "runtime._panic", "runtime.runtimePanic",
                "nocap1", "cap1", "mixed2", "nocap2" } |->
        CASE name = "nocap1" -> Decl(<< {"nocapture", "readonly"} >>)
          [] name = "cap1"   -> Decl(<< {} >>)
          [] name = "mixed2" -> Decl(<< {}, {"nocapture", "readonly"} >>)
          [] name = "nocap2" -> Decl(<< {"nocapture", "readonly"}, {"nocapture", "readonly"} >>)
          [] name = "runtime.alloc" -> Decl(<< {} >>)
          [] name = "runtime.isnil" -> Decl(<< {"nocapture", "readonly"} >>)
          [] name = "runtime.stringToBytes" -> Decl(<< {}, {} >>)
          [] name = "runtime.hashmapMake" -> Decl(<< {}, {} >>)
          [] name = "llvm.trap" -> Decl(<< >>)
          [] name = "runtime._panic" -> Decl(<< {} >>)
          [] name = "runtime.runtimePanic" -> Decl(<< {}, {} >>)
          [] name = "runtime.hashmapStringSet" -> Decl(<< {}, {}, {}, {} >>)
          [] OTHER -> Decl(<< {}, {}, {} >>)]

\* c.mod.NamedFunction(name).IsNil()
NamedFunctionIsNil(name) == name \notin DOMAIN Declarations

\* An instruction.  The operands of a call are its arguments followed by the
\* called value, as LLVM keeps them.  aux: an alloca's <<bits per word, words>>.
Instr(kind, ops, ty, fn) ==
    [kind |-> kind, ops |-> ops, ty |-> ty, fn |-> fn, aux |-> << >>]

Call(callee, args, ty, fn) == Instr("call", args \o << callee >>, ty, fn)

Ids(m) == DOMAIN m.insts

TypeOf(m, v) == IF v.k = "inst" THEN m.insts[v.n].ty ELSE v.ty

Operand(m, i, k) == m.insts[i].ops[k + 1]

CalledValue(m, i) == m.insts[i].ops[Len(m.insts[i].ops)]

IsA(m, v, kind) == v.k = "inst" /\ v.n \in Ids(m) /\ m.insts[v.n].kind = kind


\* The uses of v: <<user, operand number>>, one for every operand that is v.
UseSlots(m, v) ==
    UNION { { <<i, k>> : k \in { k \in DOMAIN m.insts[i].ops : m.insts[i].ops[k] = v } }
            : i \in Ids(m) }

Users(m, v) == { s[1] : s \in UseSlots(m, v) }

RECURSIVE NewestFirst(_)
NewestFirst(S) ==
    IF S = {} THEN << >>
    ELSE LET s == CHOOSE s \in S :
                    \A t \in S : s[1] > t[1] \/ (s[1] = t[1] /\ s[2] >= t[2])
         IN  << s[1] >> \o NewestFirst(S \ {s})

\* getUses: the user of every use of the value, the most recent use first
\* (a user appears once for each of its operands that is the value).
getUses(m, v) == NewestFirst(UseSlots(m, v))

\* Position of instruction i in its function's body.
Position(m, i) ==
    CHOOSE p \in DOMAIN m.body[m.insts[i].fn] : m.body[m.insts[i].fn][p] = i

Without(s, x) == SelectSeq(s, LAMBDA y : y # x)

\* Value.EraseFromParentAsInstruction.  Erasing an instruction twice, or one
\* that still has users, is undefined behaviour in LLVM: it is recorded as a
\* fault and nothing is assumed about the module from then on.
EraseFromParentAsInstruction(m, i) ==
    IF m.fault # "none" THEN m
    ELSE IF i \notin Ids(m) THEN [m EXCEPT !.fault = "erased twice"]
    ELSE IF UseSlots(m, InstV(i)) # {} THEN [m EXCEPT !.fault = "erased with users"]
    ELSE [m EXCEPT !.insts = [j \in Ids(m) \ {i} |-> m.insts[j]],
                   !.body[m.insts[i].fn] = Without(@, i)]

\* Value.ReplaceAllUsesWith
ReplaceAllUsesWith(m, old, new) ==
    [m EXCEPT !.insts =
        [j \in Ids(m) |->
            [m.insts[j] EXCEPT !.ops =
                [k \in DOMAIN m.insts[j].ops |->
                    IF m.insts[j].ops[k] = old THEN new ELSE m.insts[j].ops[k]]]]]

\* builder.SetInsertPointBefore(before) followed by one builder.Create...:
\* the new instruction gets the next free number and goes right before
\* `before`, in its function.
InsertBefore(m, ins, before) ==
    LET fn  == m.insts[before].fn
        pos == Position(m, before)
        b   == m.body[fn]
    IN  [m EXCEPT !.insts = [j \in Ids(m) \cup {m.next} |->
                                IF j = m.next THEN [ins EXCEPT !.fn = fn]
                                              ELSE m.insts[j]],
                  !.body[fn] = SubSeq(b, 1, pos - 1) \o << m.next >>
                                 \o SubSeq(b, pos, Len(b)),
                  !.next = m.next + 1]

\* Instructions are appended to a function while the module is built.
AppendInstr(m, ins) ==
    [m EXCEPT !.insts = [j \in Ids(m) \cup {m.next} |->
                            IF j = m.next THEN ins ELSE m.insts[j]],
              !.body[ins.fn] = Append(@, m.next),
              !.next = m.next + 1]

\* fn.EntryBasicBlock().FirstInstruction()
FirstInstruction(m, fn) == m.body[fn][1]

\* fn.ParamsCount() and fn.GetEnumAttributeAtIndex(index, kind): index 0 is
\* the return value, index i + 1 is parameter i.
ParamsCount(m, f) == Declarations[f.name].nparams
HasEnumAttributeAtIndex(m, f, index, kind) == kind \in Declarations[f.name].attrs[index]

-----------------------------------------------------------------------------
(***************************************************************************)
(* Escape and read-only analysis                                           *)
(***************************************************************************)

\* hasFlag with the attribute of the return value read for parameter 0.
hasFlagOffByOne(m, call, param, kind) ==
    LET fn == CalledValue(m, call)
    IN  IF ~IsAFunction(fn) THEN FALSE
        ELSE \A i \in 0 .. ParamsCount(m, fn) - 1 :
                Operand(m, call, i) = param =>
                    HasEnumAttributeAtIndex(m, fn, i, kind)

\* hasFlag: false for a call through a pointer, and false as soon as one
\* parameter that is the value lacks the attribute.
hasFlag(m, call, param, kind) ==
    LET fn == CalledValue(m, call)
    IN  IF ~IsAFunction(fn) THEN FALSE
        ELSE \A i \in 0 .. ParamsCount(m, fn) - 1 :
                Operand(m, call, i) = param =>
                    HasEnumAttributeAtIndex(m, fn, i + 1, kind)

RECURSIVE doesEscape(_, _)
RECURSIVE doesEscapeFrom(_, _, _, _)

\* doesEscape with a store's operands the other way round.
doesEscapeFromStoreSwapped(m, value, uses, k) ==
    IF k > Len(uses) THEN FALSE
    ELSE LET use  == uses[k]
             kind == m.insts[use].kind
             rest == doesEscapeFrom(m, value, uses, k + 1)
         IN  CASE kind = "getelementptr" ->
                    IF doesEscape(m, InstV(use)) THEN TRUE ELSE rest
               [] kind = "bitcast" ->
                    IF doesEscape(m, InstV(use)) THEN TRUE ELSE rest
               [] kind = "load" -> rest
               [] kind = "store" ->
                    IF Operand(m, use, 1) = value THEN TRUE ELSE rest
               [] kind = "call" ->
                    IF ~hasFlag(m, use, value, "nocapture") THEN TRUE ELSE rest
               [] kind = "icmp" -> rest
               [] OTHER -> TRUE

\* The loop of doesEscape over uses[k ..].
doesEscapeFrom(m, value, uses, k) ==
    IF k > Len(uses) THEN FALSE
    ELSE LET use  == uses[k]
             kind == m.insts[use].kind
             rest == doesEscapeFrom(m, value, uses, k + 1)
         IN  CASE kind = "getelementptr" ->
                    IF doesEscape(m, InstV(use)) THEN TRUE ELSE rest
               [] kind = "bitcast" ->
                    IF doesEscape(m, InstV(use)) THEN TRUE ELSE rest
               [] kind = "load" -> rest
               [] kind = "store" ->
                    IF Operand(m, use, 0) = value THEN TRUE ELSE rest
               [] kind = "call" ->
                    IF ~hasFlag(m, use, value, "nocapture") THEN TRUE ELSE rest
               [] kind = "icmp" -> rest
               [] OTHER -> TRUE

doesEscape(m, value) == doesEscapeFrom(m, value, getUses(m, value), 1)

RECURSIVE isReadOnly(_, _)
RECURSIVE isReadOnlyFrom(_, _, _, _)

\* The loop of isReadOnly over uses[k ..].
isReadOnlyFrom(m, value, uses, k) ==
    IF k > Len(uses) THEN TRUE
    ELSE LET use  == uses[k]
             kind == m.insts[use].kind
             rest == isReadOnlyFrom(m, value, uses, k + 1)
         IN  CASE kind = "getelementptr" ->
                    IF ~isReadOnly(m, InstV(use)) THEN FALSE ELSE rest
               [] kind = "call" ->
                    IF ~hasFlag(m, use, value, "readonly") THEN FALSE ELSE rest
               [] OTHER -> FALSE

isReadOnly(m, value) == isReadOnlyFrom(m, value, getUses(m, value), 1)

-----------------------------------------------------------------------------
(***************************************************************************)
(* OptimizeAllocs                                                          *)
(***************************************************************************)

\* The largest size OptimizeAllocs moves to the stack.
MaxStackAlloc == 256

\* The instruction that creates the value: the allocation's only use when
\* that is a bitcast, the allocation itself otherwise.
EffectiveValue(m, heapalloc) ==
    LET uses == getUses(m, InstV(heapalloc))
    IN  IF Len(uses) = 1 /\ m.insts[uses[1]].kind = "bitcast"
           THEN uses[1] ELSE heapalloc

\* sizeInWords := (size + alignment - 1) / alignment
SizeInWords(size, alignment) == (size + alignment - 1) \div alignment

\* Lines 275-290: alloca, zero store and bitcast at the top of the function,
\* the uses moved over, the heap allocation erased.
MoveToStack(m, heapalloc, bitcast, size) ==
    LET fn     == m.insts[bitcast].fn
        first  == FirstInstruction(m, fn)
        align  == m.alignment
        alloca == m.next
        m1 == InsertBefore(m,
                 [Instr("alloca", << >>, "array*", fn)
                    EXCEPT !.aux = << align * 8, SizeInWords(size, align) >>],
                 first)
        m2 == InsertBefore(m1,
                 Instr("store", << ZeroValue("array"), InstV(alloca) >>, "void", fn),
                 first)
        stackalloc == m2.next
        m3 == InsertBefore(m2,
                 Instr("bitcast", << InstV(alloca) >>, m.insts[bitcast].ty, fn),
                 first)
        m4 == ReplaceAllUsesWith(m3, InstV(bitcast), InstV(stackalloc))
        m5 == IF heapalloc # bitcast
                 THEN EraseFromParentAsInstruction(m4, bitcast) ELSE m4
    IN  EraseFromParentAsInstruction(m5, heapalloc)

\* The body of OptimizeAllocs' loop with the size test the wrong way round
\* at the limit (size >= 256 is left on the heap).
OptimizeAllocLimitExclusive(m, heapalloc) ==
    IF ~IsAConstant(Operand(m, heapalloc, 0)) THEN m
    ELSE LET size == Operand(m, heapalloc, 0).n
             bitcast == EffectiveValue(m, heapalloc)
         IN  IF size >= MaxStackAlloc THEN m
             ELSE IF ~doesEscape(m, InstV(bitcast))
                     THEN MoveToStack(m, heapalloc, bitcast, size)
                     ELSE m

\* The body of OptimizeAllocs' loop, for one call of runtime.alloc.
OptimizeAlloc(m, heapalloc) ==
    IF ~IsAConstant(Operand(m, heapalloc, 0)) THEN m
    ELSE LET size == Operand(m, heapalloc, 0).n
             bitcast == EffectiveValue(m, heapalloc)
         IN  IF size > MaxStackAlloc THEN m
             ELSE IF ~doesEscape(m, InstV(bitcast))
                     THEN MoveToStack(m, heapalloc, bitcast, size)
                     ELSE m

RECURSIVE OptimizeAllocsFrom(_, _, _)
OptimizeAllocsFrom(m, heapallocs, k) ==
    IF k > Len(heapallocs) \/ m.fault # "none" THEN m
    ELSE OptimizeAllocsFrom(OptimizeAlloc(m, heapallocs[k]), heapallocs, k + 1)

OptimizeAllocs(m) ==
    IF NamedFunctionIsNil("runtime.alloc") THEN m
    ELSE OptimizeAllocsFrom(m, getUses(m, Func("runtime.alloc")), 1)

-----------------------------------------------------------------------------
(***************************************************************************)
(* OptimizeStringToBytes                                                   *)
(***************************************************************************)

\* The loop body over the uses of a stringToBytes call that keeps
\* convertedAllUses for a pointer field that is not read-only.
ConvertUseKeepsFlag(st, call, use) ==
    LET m      == st.m
        strptr == Operand(m, call, 0)
        strlen == Operand(m, call, 1)
    IN  IF m.fault # "none" THEN st
        ELSE IF use \notin Ids(m) THEN [st EXCEPT !.m.fault = "use of erased instruction"]
        ELSE IF m.insts[use].kind # "extractvalue"
                THEN [st EXCEPT !.convertedAllUses = FALSE]
        ELSE IF m.insts[use].ty \in IntegerTypes
                THEN [st EXCEPT !.m = EraseFromParentAsInstruction(
                                          ReplaceAllUsesWith(m, InstV(use), strlen), use)]
        ELSE IF m.insts[use].ty \in PointerTypes
                THEN IF ~isReadOnly(m, InstV(use))
                        THEN st
                        ELSE [st EXCEPT !.m = EraseFromParentAsInstruction(
                                          ReplaceAllUsesWith(m, InstV(use), strptr), use)]
        ELSE [st EXCEPT !.m.fault = "panic: unknown return type of runtime.stringToBytes"]

\* The loop body over the uses of a stringToBytes call; st is the module
\* and convertedAllUses.
ConvertUse(st, call, use) ==
    LET m      == st.m
        strptr == Operand(m, call, 0)
        strlen == Operand(m, call, 1)
    IN  IF m.fault # "none" THEN st
        ELSE IF use \notin Ids(m) THEN [st EXCEPT !.m.fault = "use of erased instruction"]
        ELSE IF m.insts[use].kind # "extractvalue"
                THEN [st EXCEPT !.convertedAllUses = FALSE]
        ELSE IF m.insts[use].ty \in IntegerTypes
                THEN [st EXCEPT !.m = EraseFromParentAsInstruction(
                                          ReplaceAllUsesWith(m, InstV(use), strlen), use)]
        ELSE IF m.insts[use].ty \in PointerTypes
                THEN IF ~isReadOnly(m, InstV(use))
                        THEN [st EXCEPT !.convertedAllUses = FALSE]
                        ELSE [st EXCEPT !.m = EraseFromParentAsInstruction(
                                          ReplaceAllUsesWith(m, InstV(use), strptr), use)]
        ELSE [st EXCEPT !.m.fault = "panic: unknown return type of runtime.stringToBytes"]

RECURSIVE ConvertUsesFrom(_, _, _, _)
ConvertUsesFrom(st, call, uses, k) ==
    IF k > Len(uses) THEN st
    ELSE ConvertUsesFrom(ConvertUse(st, call, uses[k]), call, uses, k + 1)

\* The body of the loop over the calls of runtime.stringToBytes.
OptimizeStringToBytesCall(m, call) ==
    IF m.fault # "none" THEN m
    ELSE IF call \notin Ids(m) THEN [m EXCEPT !.fault = "use of erased instruction"]
    ELSE LET st == ConvertUsesFrom([m |-> m, convertedAllUses |-> TRUE], call,
                                   getUses(m, InstV(call)), 1)
         IN  IF st.m.fault = "none" /\ st.convertedAllUses
                THEN EraseFromParentAsInstruction(st.m, call)
                ELSE st.m

RECURSIVE OptimizeStringToBytesFrom(_, _, _)
OptimizeStringToBytesFrom(m, calls, k) ==
    IF k > Len(calls) THEN m
    ELSE OptimizeStringToBytesFrom(OptimizeStringToBytesCall(m, calls[k]), calls, k + 1)

OptimizeStringToBytes(m) ==
    IF NamedFunctionIsNil("runtime.stringToBytes") THEN m
    ELSE OptimizeStringToBytesFrom(m, getUses(m, Func("runtime.stringToBytes")), 1)

-----------------------------------------------------------------------------
(***************************************************************************)
(* OptimizeMaps                                                            *)
(***************************************************************************)

\* The calls of the two update functions among the uses, in the order of
\* the uses.
UpdateInsts(m, uses) ==
    SelectSeq(uses, LAMBDA use :
        /\ m.insts[use].kind = "call"
        /\ CalledValue(m, use) \in { Func("runtime.hashmapBinarySet"),
                                     Func("runtime.hashmapStringSet") })

\* Is one of the uses something else than a call of an update function?
UnknownUses(m, uses) ==
    \E k \in DOMAIN uses :
        \/ m.insts[uses[k]].kind # "call"
        \/ CalledValue(m, uses[k]) \notin { Func("runtime.hashmapBinarySet"),
                                            Func("runtime.hashmapStringSet") }

RECURSIVE EraseAll(_, _, _)
EraseAll(m, is, k) ==
    IF k > Len(is) THEN m
    ELSE EraseAll(EraseFromParentAsInstruction(m, is[k]), is, k + 1)

\* The loop body of OptimizeMaps that takes every call that uses the map
\* for an update of it.
OptimizeMapAnyCallIsUpdate(m, makeInst) ==
    IF m.fault # "none" THEN m
    ELSE IF makeInst \notin Ids(m) THEN [m EXCEPT !.fault = "use of erased instruction"]
    ELSE LET uses == getUses(m, InstV(makeInst))
             calls == SelectSeq(uses, LAMBDA use : m.insts[use].kind = "call")
         IN  IF Len(calls) # Len(uses) THEN m
             ELSE EraseFromParentAsInstruction(EraseAll(m, calls, 1), makeInst)

\* The loop body of OptimizeMaps for one call of runtime.hashmapMake.
OptimizeMap(m, makeInst) ==
    IF m.fault # "none" THEN m
    ELSE IF makeInst \notin Ids(m) THEN [m EXCEPT !.fault = "use of erased instruction"]
    ELSE LET uses == getUses(m, InstV(makeInst))
         IN  IF UnknownUses(m, uses) THEN m
             ELSE EraseFromParentAsInstruction(
                      EraseAll(m, UpdateInsts(m, uses), 1), makeInst)

RECURSIVE OptimizeMapsFrom(_, _, _)
OptimizeMapsFrom(m, makeInsts, k) ==
    IF k > Len(makeInsts) THEN m
    ELSE OptimizeMapsFrom(OptimizeMap(m, makeInsts[k]), makeInsts, k + 1)

OptimizeMaps(m) ==
    IF NamedFunctionIsNil("runtime.hashmapMake") THEN m
    ELSE OptimizeMapsFrom(m, getUses(m, Func("runtime.hashmapMake")), 1)

-----------------------------------------------------------------------------
(***************************************************************************)
(* Lowering of runtime.isnil                                               *)
(***************************************************************************)

\* The pointer compared: the operand of the call, or what it is a bitcast of.
StripBitCast(m, ptr) == IF IsA(m, ptr, "bitcast") THEN Operand(m, ptr.n, 0) ELSE ptr

ICmpEQ(lhs, rhs) == [Instr("icmp", << lhs, rhs >>, "i1", "") EXCEPT !.aux = << "eq" >>]

\* The loop body with the null constant of the type of the call's operand.
LowerIsNilCallNullOfOperandType(m, use) ==
    IF m.fault # "none" THEN m
    ELSE IF use \notin Ids(m) THEN [m EXCEPT !.fault = "use of erased instruction"]
    ELSE LET ptr    == StripBitCast(m, Operand(m, use, 0))
             nilptr == ConstPointerNull(TypeOf(m, Operand(m, use, 0)))
             icmp   == InstV(m.next)
             m1     == InsertBefore(m, ICmpEQ(ptr, nilptr), use)
         IN  EraseFromParentAsInstruction(ReplaceAllUsesWith(m1, InstV(use), icmp), use)

\* The loop body: one call of runtime.isnil becomes an icmp eq.
LowerIsNilCall(m, use) ==
    IF m.fault # "none" THEN m
    ELSE IF use \notin Ids(m) THEN [m EXCEPT !.fault = "use of erased instruction"]
    ELSE LET ptr    == StripBitCast(m, Operand(m, use, 0))
             nilptr == ConstPointerNull(TypeOf(m, ptr))
             icmp   == InstV(m.next)
             m1     == InsertBefore(m, ICmpEQ(ptr, nilptr), use)
         IN  EraseFromParentAsInstruction(ReplaceAllUsesWith(m1, InstV(use), icmp), use)

RECURSIVE LowerIsNilFrom(_, _, _)
LowerIsNilFrom(m, uses, k) ==
    IF k > Len(uses) THEN m
    ELSE LowerIsNilFrom(LowerIsNilCall(m, uses[k]), uses, k + 1)

LowerIsNil(m) ==
    IF NamedFunctionIsNil("runtime.isnil") THEN m
    ELSE LowerIsNilFrom(m, getUses(m, Func("runtime.isnil")), 1)

-----------------------------------------------------------------------------
(***************************************************************************)
(* replacePanicsWithTrap                                                   *)
(***************************************************************************)

PanicFunctions == << "runtime._panic", "runtime.runtimePanic" >>

\* The loop body that accepts every call among the uses, whatever it calls.
ReplacePanicUseAnyCall(m, fn, use) ==
    IF m.fault # "none" THEN m
    ELSE IF m.insts[use].kind # "call"
            THEN [m EXCEPT !.fault = "panic: expected use of a panic function to be a call"]
    ELSE InsertBefore(m, Call(Func("llvm.trap"), << >>, "void", ""), use)

\* The loop body over the uses of a panic function: a trap before the use.
ReplacePanicUse(m, fn, use) ==
    IF m.fault # "none" THEN m
    ELSE IF m.insts[use].kind # "call" \/ CalledValue(m, use) # fn
            THEN [m EXCEPT !.fault = "panic: expected use of a panic function to be a call"]
    ELSE InsertBefore(m, Call(Func("llvm.trap"), << >>, "void", ""), use)

RECURSIVE ReplacePanicUsesFrom(_, _, _, _)
ReplacePanicUsesFrom(m, fn, uses, k) ==
    IF k > Len(uses) THEN m
    ELSE ReplacePanicUsesFrom(ReplacePanicUse(m, fn, uses[k]), fn, uses, k + 1)

RECURSIVE replacePanicsWithTrapFrom(_, _)
replacePanicsWithTrapFrom(m, n) ==
    IF n > Len(PanicFunctions) THEN m
    ELSE IF NamedFunctionIsNil(PanicFunctions[n]) THEN replacePanicsWithTrapFrom(m, n + 1)
    ELSE replacePanicsWithTrapFrom(
             ReplacePanicUsesFrom(m, Func(PanicFunctions[n]),
                                  getUses(m, Func(PanicFunctions[n])), 1),
             n + 1)

replacePanicsWithTrap(m) == replacePanicsWithTrapFrom(m, 1)

-----------------------------------------------------------------------------
(***************************************************************************)
(* Building modules: the inputs of the rewrite passes                      *)
(***************************************************************************)

\* The most instructions that are added to a module before a pass runs.
MaxUses == 2

\* A module with two functions, "f" and "g", that each start with a load.
EmptyModule ==
    [insts |-> << Instr("load", << Param("q", "T*") >>, "i32", "f"),
                  Instr("load", << Param("r", "T*") >>, "i32", "g") >>,
     body |-> [fn \in {"f", "g"} |-> IF fn = "f" THEN << 1 >> ELSE << 2 >>],
     next |-> 3,
     alignment |-> 4,
     fault |-> "none"]

\* The number of instructions added to the module the building started from.
Added == mod.next - mod0.next

\* The values of pointer type an instruction of the module defines.
PointerValues(m) == { InstV(i) : i \in { i \in Ids(m) : m.insts[i].ty \in PointerTypes } }

\* The uses of a pointer v the model builds.
PointerUseKinds ==
    { "load", "icmp", "store to", "store of", "getelementptr", "bitcast",
      "ptrtoint", "nocap1(v)", "cap1(v)", "mixed2(v, v)", "mixed2(q, v)",
      "nocap2(v, v)", "indirect(v)" }

PointerUse(kind, v, fn) ==
    CASE kind = "load" -> Instr("load", << v >>, "i32", fn)
      [] kind = "icmp" -> Instr("icmp", << v, ConstPointerNull("i8*") >>, "i1", fn)
      [] kind = "store to" -> Instr("store", << ConstInt(1), v >>, "void", fn)
      [] kind = "store of" -> Instr("store", << v, Param("q", "T*") >>, "void", fn)
      [] kind = "getelementptr" -> Instr("getelementptr", << v, ConstInt(1) >>, "T*", fn)
      [] kind = "bitcast" -> Instr("bitcast", << v >>, "T*", fn)
      [] kind = "ptrtoint" -> Instr("ptrtoint", << v >>, "i32", fn)
      [] kind = "nocap1(v)" -> Call(Func("nocap1"), << v >>, "void", fn)
      [] kind = "cap1(v)" -> Call(Func("cap1"), << v >>, "void", fn)
      [] kind = "mixed2(v, v)" -> Call(Func("mixed2"), << v, v >>, "void", fn)
      [] kind = "mixed2(q, v)" -> Call(Func("mixed2"), << Param("q", "T*"), v >>, "void", fn)
      [] kind = "nocap2(v, v)" -> Call(Func("nocap2"), << v, v >>, "void", fn)
      [] kind = "indirect(v)" -> Call(Param("fp", "fn*"), << v >>, "void", fn)

\* The front end adds a use of a pointer the module defines, in the
\* pointer's function.
AddPointerUse ==
    /\ phase = "input"
    /\ Added < MaxUses
    /\ \E v \in PointerValues(mod), kind \in PointerUseKinds :
         mod' = AppendInstr(mod, PointerUse(kind, v, mod.insts[v.n].fn))
    /\ UNCHANGED <<notIRVars, mod0, phase>>

\* The front end adds a store of one pointer of the module through another
\* of the same function.
AddPointerStore ==
    /\ phase = "input"
    /\ Added < MaxUses
    /\ \E v, w \in PointerValues(mod) :
         /\ v # w
         /\ mod.insts[v.n].fn = mod.insts[w.n].fn
         /\ mod' = AppendInstr(mod, Instr("store", << v, w >>, "void", mod.insts[v.n].fn))
    /\ UNCHANGED <<notIRVars, mod0, phase>>

\* The sizes runtime.alloc is called with and the ABI alignment of i8*.
AllocSizes == { ConstInt(0), ConstInt(13), ConstInt(256), ConstInt(257), Param("n", "i32") }
Alignments == { 4, 8 }

AllocCall(size, fn) == Call(Func("runtime.alloc"), << size >>, "i8*", fn)

\* One call of runtime.alloc in "f"; or that and a second one, in "f" or "g".
AllocModules ==
    { AppendInstr([EmptyModule EXCEPT !.alignment = a], AllocCall(size, "f"))
        : size \in AllocSizes, a \in Alignments }
    \cup
    { AppendInstr(AppendInstr(EmptyModule, AllocCall(ConstInt(13), "f")),
                  AllocCall(ConstInt(8), fn)) : fn \in {"f", "g"} }

IRIdle ==
    /\ mod = EmptyModule
    /\ mod0 = EmptyModule
    /\ phase = "idle"

AllocsInit ==
    /\ mod \in AllocModules
    /\ mod0 = mod
    /\ phase = "input"

\* c.OptimizeAllocs()
RunOptimizeAllocs ==
    /\ phase = "input"
    /\ mod0' = mod
    /\ mod' = OptimizeAllocs(mod)
    /\ phase' = "optimize_allocs"
    /\ UNCHANGED notIRVars

AllocsNext == AddPointerUse \/ AddPointerStore \/ RunOptimizeAllocs

\* The values that are no pointers: integers, booleans, slices.
OtherValues(m) ==
    { InstV(i) : i \in { i \in Ids(m) : m.insts[i].ty \notin PointerTypes \cup {"void"} } }

ValueUseKinds == { "store of", "cap1(v)", "nocap2(v, v)" }

\* The front end adds a use of a value that is no pointer, in its function.
AddValueUse ==
    /\ phase = "input"
    /\ Added < MaxUses
    /\ \E v \in OtherValues(mod), kind \in ValueUseKinds :
         mod' = AppendInstr(mod, PointerUse(kind, v, mod.insts[v.n].fn))
    /\ UNCHANGED <<notIRVars, mod0, phase>>

\* runtime.stringToBytes returns a slice: field 0 the pointer, field 1 the
\* length, field 2 the capacity.
SliceFields == { 0, 1, 2 }

ExtractValue(v, field, fn) ==
    [Instr("extractvalue", << v >>, IF field = 0 THEN "i8*" ELSE "i32", fn)
        EXCEPT !.aux = << field >>]

StringToBytesCall(name, len, fn) ==
    Call(Func("runtime.stringToBytes"), << Global(name, "i8*"), ConstInt(len) >>, "slice", fn)

StringToBytesCalls(m) ==
    { i \in Ids(m) : m.insts[i].kind = "call"
                     /\ CalledValue(m, i) = Func("runtime.stringToBytes") }

RECURSIVE AppendAll(_, _)
AppendAll(m, is) ==
    IF is = << >> THEN m ELSE AppendAll(AppendInstr(m, Head(is)), Tail(is))

\* The front end extracts a field of the result of a stringToBytes call.
AddExtractValue ==
    /\ phase = "input"
    /\ Added < MaxUses
    /\ \E c \in StringToBytesCalls(mod), field \in SliceFields :
         mod' = AppendInstr(mod, ExtractValue(InstV(c), field, mod.insts[c].fn))
    /\ UNCHANGED <<notIRVars, mod0, phase>>

\* One call of runtime.stringToBytes in "f" with some of its fields
\* extracted; or that and a second call, in "g".
StringModules ==
    { AppendAll(EmptyModule,
                << StringToBytesCall("foo", 3, "f") >>
                \o [k \in 1 .. Len(fields) |-> ExtractValue(InstV(3), fields[k], "f")])
        : fields \in { << >>, << 0 >>, << 1 >>, << 0, 1 >>, << 0, 0 >>, << 0, 1, 2 >> } }
    \cup
    { AppendAll(EmptyModule,
                << StringToBytesCall("foo", 3, "f"), ExtractValue(InstV(3), 0, "f"),
                   StringToBytesCall("quux", 4, "g"), ExtractValue(InstV(5), 0, "g") >>) }

StringInit ==
    /\ mod \in StringModules
    /\ mod0 = mod
    /\ phase = "input"

\* c.OptimizeStringToBytes()
RunOptimizeStringToBytes ==
    /\ phase = "input"
    /\ mod0' = mod
    /\ mod' = OptimizeStringToBytes(mod)
    /\ phase' = "optimize_string_to_bytes"
    /\ UNCHANGED notIRVars

StringNext ==
    AddExtractValue \/ AddPointerUse \/ AddValueUse \/ RunOptimizeStringToBytes

HashmapMakeCall(fn) ==
    Call(Func("runtime.hashmapMake"), << ConstInt(4), ConstInt(4) >>, "hashmap*", fn)

HashmapMakeCalls(m) ==
    { i \in Ids(m) : m.insts[i].kind = "call"
                     /\ CalledValue(m, i) = Func("runtime.hashmapMake") }

\* m[key] = value: the map, then the key and a pointer to the value.
HashmapSetCall(name, map, fn) ==
    IF name = "runtime.hashmapStringSet"
       THEN Call(Func(name), << map, Global("key", "i8*"), ConstInt(3),
                                Param("value", "i8*") >>, "void", fn)
       ELSE Call(Func(name), << map, Param("key", "i8*"), Param("value", "i8*") >>,
                 "void", fn)

HashmapGetCall(map, fn) ==
    Call(Func("runtime.hashmapBinaryGet"),
         << map, Param("key", "i8*"), Param("value", "i8*") >>, "void", fn)

\* The front end adds an update of a map.
AddHashmapSet ==
    /\ phase = "input"
    /\ Added < MaxUses
    /\ \E h \in HashmapMakeCalls(mod),
          name \in { "runtime.hashmapBinarySet", "runtime.hashmapStringSet" } :
         mod' = AppendInstr(mod, HashmapSetCall(name, InstV(h), mod.insts[h].fn))
    /\ UNCHANGED <<notIRVars, mod0, phase>>

\* The front end adds a lookup in a map.
AddHashmapGet ==
    /\ phase = "input"
    /\ Added < MaxUses
    /\ \E h \in HashmapMakeCalls(mod) :
         mod' = AppendInstr(mod, HashmapGetCall(InstV(h), mod.insts[h].fn))
    /\ UNCHANGED <<notIRVars, mod0, phase>>

\* One map in "f", without or with two updates, or with a second map in
\* "f" or "g".
MapModules ==
    { AppendAll(EmptyModule, << HashmapMakeCall("f") >>),
      AppendAll(EmptyModule, << HashmapMakeCall("f"),
                                HashmapSetCall("runtime.hashmapBinarySet", InstV(3), "f"),
                                HashmapSetCall("runtime.hashmapStringSet", InstV(3), "f") >>),
      AppendAll(EmptyModule, << HashmapMakeCall("f"), HashmapMakeCall("f"),
                                HashmapSetCall("runtime.hashmapBinarySet", InstV(3), "f") >>),
      AppendAll(EmptyModule, << HashmapMakeCall("f"), HashmapMakeCall("g"),
                                HashmapSetCall("runtime.hashmapBinarySet", InstV(4), "g") >>) }

MapsInit ==
    /\ mod \in MapModules
    /\ mod0 = mod
    /\ phase = "input"

\* c.OptimizeMaps()
RunOptimizeMaps ==
    /\ phase = "input"
    /\ mod0' = mod
    /\ mod' = OptimizeMaps(mod)
    /\ phase' = "optimize_maps"
    /\ UNCHANGED notIRVars

MapsNext == AddHashmapSet \/ AddHashmapGet \/ AddPointerUse \/ RunOptimizeMaps

\* An update call with a map value as key or value operand as well: the
\* use-graphs OptimizeMaps can be handed through the LLVM API, which does not
\* check a call's argument types when it is built, though the front end
\* passes an i8* there.
HashmapSetCallWith(map, position, other, fn) ==
    Call(Func("runtime.hashmapBinarySet"),
         [k \in 1 .. 3 |-> IF k = 1 THEN map
                           ELSE IF k = position THEN other
                           ELSE IF k = 2 THEN Param("key", "i8*")
                           ELSE Param("value", "i8*")],
         "void", fn)

\* An update of a map is added whose key or value operand is a map, the
\* same or another one of the function.
AddHashmapSetWithMapOperand ==
    /\ phase = "input"
    /\ Added < MaxUses
    /\ \E h, other \in HashmapMakeCalls(mod), position \in {2, 3} :
         /\ mod.insts[h].fn = mod.insts[other].fn
         /\ mod' = AppendInstr(mod, HashmapSetCallWith(InstV(h), position, InstV(other),
                                                       mod.insts[h].fn))
    /\ UNCHANGED <<notIRVars, mod0, phase>>

MapOperandsNext ==
    AddHashmapSet \/ AddHashmapGet \/ AddHashmapSetWithMapOperand \/ RunOptimizeMaps

IsNilCall(ptr, fn) == Call(Func("runtime.isnil"), << ptr >>, "i1", fn)

IsNilCalls(m) ==
    { i \in Ids(m) : m.insts[i].kind = "call"
                     /\ CalledValue(m, i) = Func("runtime.isnil") }

\* The pointers runtime.isnil is called with: a parameter or the result of
\* an instruction.
IsNilOperands(m) == { Param("p", "i8*") } \cup PointerValues(m)

\* The front end adds a comparison of a pointer with nil.
AddIsNilCall ==
    /\ phase = "input"
    /\ Added < MaxUses
    /\ \E fn \in {"f", "g"} :
         \E ptr \in { v \in IsNilOperands(mod) : v.k = "inst" => mod.insts[v.n].fn = fn } :
            mod' = AppendInstr(mod, IsNilCall(ptr, fn))
    /\ UNCHANGED <<notIRVars, mod0, phase>>

\* The front end casts a pointer to i8*.
AddBitCast ==
    /\ phase = "input"
    /\ Added < MaxUses
    /\ \E v \in PointerValues(mod) :
         mod' = AppendInstr(mod, Instr("bitcast", << v >>, "i8*", mod.insts[v.n].fn))
    /\ UNCHANGED <<notIRVars, mod0, phase>>

\* A pointer in "f", as it is, cast to i8*, or cast twice; with or without
\* a call of runtime.isnil on a parameter before it.
IsNilModules ==
    { AppendAll(EmptyModule, pre \o << Instr("load", << Param("pp", "T**") >>, "T*", "f") >>)
        : pre \in { << >>, << IsNilCall(Param("p", "i8*"), "f") >> } }
    \cup
    { AppendAll(EmptyModule, << Instr("load", << Param("pp", "T**") >>, "T*", "f"),
                                Instr("bitcast", << InstV(3) >>, "i8*", "f") >>),
      AppendAll(EmptyModule, << Instr("load", << Param("pp", "T**") >>, "T*", "f"),
                                Instr("bitcast", << InstV(3) >>, "array*", "f"),
                                Instr("bitcast", << InstV(4) >>, "i8*", "f") >>) }

IsNilInit ==
    /\ mod \in IsNilModules
    /\ mod0 = mod
    /\ phase = "input"

\* The lowering of runtime.isnil in Optimize.
RunLowerIsNil ==
    /\ phase = "input"
    /\ mod0' = mod
    /\ mod' = LowerIsNil(mod)
    /\ phase' = "lower_isnil"
    /\ UNCHANGED notIRVars

IsNilNext == AddIsNilCall \/ AddBitCast \/ AddValueUse \/ RunLowerIsNil

PanicCall(name, fn) ==
    IF name = "runtime._panic"
       THEN Call(Func(name), << Param("message", "i8*") >>, "void", fn)
       ELSE Call(Func(name), << Global("msg", "i8*"), ConstInt(3) >>, "void", fn)

PanicCalls(m) ==
    { i \in Ids(m) : m.insts[i].kind = "call"
                     /\ CalledValue(m, i) \in { Func(PanicFunctions[n]) : n \in 1 .. 2 } }

\* The front end adds a call of a panic function.
AddPanicCall ==
    /\ phase = "input"
    /\ Added < MaxUses
    /\ \E n \in DOMAIN PanicFunctions, fn \in {"f", "g"} :
         mod' = AppendInstr(mod, PanicCall(PanicFunctions[n], fn))
    /\ UNCHANGED <<notIRVars, mod0, phase>>

\* A module gets a use of a panic function that is no call of it: the
\* function is stored, or passed to another function.
AddPanicFunctionUse ==
    /\ phase = "input"
    /\ Added < MaxUses
    /\ \E n \in DOMAIN PanicFunctions, fn \in {"f", "g"}, kind \in {"store of", "cap1(v)"} :
         mod' = AppendInstr(mod, PointerUse(kind, Func(PanicFunctions[n]), fn))
    /\ UNCHANGED <<notIRVars, mod0, phase>>

\* No call of a panic function yet; or one of each in "f", the second right
\* after a call of llvm.trap the program made itself.
PanicModules ==
    { EmptyModule,
      AppendAll(EmptyModule, << PanicCall("runtime._panic", "f"),
                                Call(Func("llvm.trap"), << >>, "void", "f"),
                                PanicCall("runtime.runtimePanic", "f") >>) }

PanicsInit ==
    /\ mod \in PanicModules
    /\ mod0 = mod
    /\ phase = "input"

\* Optimize, lines 21 to 23: replacePanicsWithTrap if the strategy is trap.
RunReplacePanics ==
    /\ phase = "input"
    /\ mod0' = mod
    /\ IF cfg.panicStrategy = "trap"
          THEN /\ mod' = replacePanicsWithTrap(mod)
               /\ steps' = Append(steps, "replace_panics_with_trap")
               /\ phase' = IF replacePanicsWithTrap(mod).fault = "none"
                              THEN "funcPasses" ELSE "panicked"
          ELSE /\ mod' = mod
               /\ steps' = steps
               /\ phase' = "funcPasses"
    /\ UNCHANGED <<gcVars, cfg, pc, valid, verdicts, lgErr, result>>

\* Optimize, lines 25 to 33: the function passes run on every function.
RunFuncPasses ==
    /\ phase = "funcPasses"
    /\ steps' = Append(steps, "function-passes")
    /\ phase' = "function-passes"
    /\ UNCHANGED <<gcVars, cfg, pc, valid, verdicts, lgErr, result, mod, mod0>>

PanicsNext == AddPanicCall \/ AddPanicFunctionUse \/ RunReplacePanics \/ RunFuncPasses

-----------------------------------------------------------------------------
(***************************************************************************)
(* The precise mark-sweep collector                                        *)
(***************************************************************************)

\* unsafe.Sizeof(uintptr(0)) on a 32-bit target.
WordSize == 4

\* The memory of a small target: the tracked globals, the stack below
\* stackTop, and a pool of NumBlocks blocks of one word each.
TrackedGlobalsLength == 1
StackWords == 1
NumBlocks == 3
bytesPerBlock == 4

trackedGlobalsStart == 16
stackTop == 48
poolStart == 64
poolEnd == poolStart + NumBlocks * bytesPerBlock
endBlock == NumBlocks

StackLimit == stackTop - StackWords * WordSize

Words(start, end) == { a \in start .. end - 1 : (a - start) % WordSize = 0 }

GlobalAddrs == Words(trackedGlobalsStart, trackedGlobalsStart + TrackedGlobalsLength * WordSize)
StackAddrs == Words(StackLimit, stackTop)
PoolAddrs == Words(poolStart, poolEnd)
Addrs == GlobalAddrs \cup StackAddrs \cup PoolAddrs

Blocks == 0 .. NumBlocks - 1

\* gcBlock.address, blockFromAddr, addressOnHeap
address(block) == poolStart + block * bytesPerBlock
blockFromAddr(addr) == (addr - poolStart) \div bytesPerBlock
addressOnHeap(addr) == addr >= poolStart /\ addr < poolEnd

\* gcBlock.findHead: back over the tail blocks.
RECURSIVE findHead(_, _)
findHead(bs, block) ==
    IF block > 0 /\ bs[block] = "tail" THEN findHead(bs, block - 1) ELSE block

RECURSIVE skipTails(_, _)
skipTails(bs, block) ==
    IF block < endBlock /\ bs[block] = "tail" THEN skipTails(bs, block + 1) ELSE block

\* gcBlock.findNext: the first block after the object that holds the block.
findNext(bs, block) ==
    IF bs[block] \in {"head", "mark"} THEN skipTails(bs, block + 1)
                                      ELSE skipTails(bs, block)

\* Bit i of the bitmap: trackedGlobalsBitmap[i/8] & (1 << (i%8)) != 0
BitSet(bitmap, i) == (bitmap[(i \div 8) + 1] \div (2 ^ (i % 8))) % 2 = 1

\* getCurrentStackPointer on WebAssembly.
getCurrentStackPointer == stackTop

RECURSIVE markRoots(_, _, _)
RECURSIVE markRoot(_, _, _)

\* markRoot: bs are the block states, the result the block states after it.
markRoot(bs, addr, root) ==
    IF ~addressOnHeap(root) THEN bs
    ELSE LET block == blockFromAddr(root)
             head  == findHead(bs, block)
         IN  IF bs[head] = "mark" THEN bs
             ELSE LET marked == [bs EXCEPT ![head] = "mark"]
                      next   == findNext(marked, block)
                  IN  markRoots(marked, address(head), address(next))

markRoots(bs, start, end) ==
    IF start = end THEN bs
    ELSE markRoots(markRoot(bs, start, mem[start]), start + WordSize, end)

RECURSIVE markGlobalsFrom(_, _)
markGlobalsFrom(bs, i) ==
    IF ~(i < TrackedGlobalsLength) THEN bs
    ELSE IF BitSet(trackedGlobalsBitmap, i)
            THEN LET addr == trackedGlobalsStart + i * WordSize
                 IN  markGlobalsFrom(markRoot(bs, addr, mem[addr]), i + 1)
            ELSE markGlobalsFrom(bs, i + 1)

markGlobals(bs) == markGlobalsFrom(bs, 0)

\* markGlobals for a tracked region of any length, with what it reads: st.bs
\* are the block states, st.bytes the indices of the bitmap bytes read and
\* st.slots the addresses of the global slots read.
RECURSIVE markGlobalsReadingInclusive(_, _, _, _)
markGlobalsReadingInclusive(st, i, trackedGlobalsLength, bitmap) ==
    IF ~(i <= trackedGlobalsLength) THEN st
    ELSE LET read == [st EXCEPT !.bytes = @ \cup {i \div 8}]
         IN  IF BitSet(bitmap, i)
                THEN LET addr == trackedGlobalsStart + i * WordSize
                     IN  markGlobalsReadingInclusive(
                             [read EXCEPT !.bs = markRoot(@, addr, mem[addr]),
                                          !.slots = @ \cup {addr}],
                             i + 1, trackedGlobalsLength, bitmap)
                ELSE markGlobalsReadingInclusive(read, i + 1, trackedGlobalsLength,
                                                 bitmap)

RECURSIVE markGlobalsReading(_, _, _, _)
markGlobalsReading(st, i, trackedGlobalsLength, bitmap) ==
    IF ~(i < trackedGlobalsLength) THEN st
    ELSE LET read == [st EXCEPT !.bytes = @ \cup {i \div 8}]
         IN  IF BitSet(bitmap, i)
                THEN LET addr == trackedGlobalsStart + i * WordSize
                     IN  markGlobalsReading(
                             [read EXCEPT !.bs = markRoot(@, addr, mem[addr]),
                                          !.slots = @ \cup {addr}],
                             i + 1, trackedGlobalsLength, bitmap)
                ELSE markGlobalsReading(read, i + 1, trackedGlobalsLength, bitmap)

\* sweep: a head that is not marked is freed with its tails, a marked head
\* becomes a head again.
RECURSIVE sweepFrom(_, _, _)
sweepFrom(bs, block, freeCurrentObject) ==
    IF ~(block < endBlock) THEN bs
    ELSE CASE bs[block] = "head" ->
                sweepFrom([bs EXCEPT ![block] = "free"], block + 1, TRUE)
           [] bs[block] = "tail" ->
                IF freeCurrentObject
                   THEN sweepFrom([bs EXCEPT ![block] = "free"], block + 1, TRUE)
                   ELSE sweepFrom(bs, block + 1, FALSE)
           [] bs[block] = "mark" ->
                sweepFrom([bs EXCEPT ![block] = "head"], block + 1, FALSE)
           [] OTHER -> sweepFrom(bs, block + 1, freeCurrentObject)

sweep(bs) == sweepFrom(bs, 0, FALSE)

\* GC: the block states after a collection cycle.
GC(bs) == sweep(markRoots(markGlobals(bs), getCurrentStackPointer, stackTop))

\* The blocks heapAlloc may claim for size bytes: a run of free blocks.
NeededBlocks(size) == (size + bytesPerBlock - 1) \div bytesPerBlock

FreeRuns(bs, size) ==
    { b \in Blocks : /\ b + NeededBlocks(size) <= endBlock
                     /\ \A k \in b .. b + NeededBlocks(size) - 1 : bs[k] = "free" }

\* heapAlloc claiming the run that starts at block b.
heapAlloc(bs, b, size) ==
    [k \in Blocks |-> IF k = b THEN "head"
                      ELSE IF k > b /\ k < b + NeededBlocks(size) THEN "tail"
                      ELSE bs[k]]

\* The program the collector serves.  The words it can see: the tracked
\* globals whose bit is set and the stack from sp to stackTop.
RootAddrs ==
    { trackedGlobalsStart + i * WordSize :
         i \in { i \in 0 .. TrackedGlobalsLength - 1 : BitSet(trackedGlobalsBitmap, i) } }
    \cup Words(sp, stackTop)

\* The head of the object a word points to or into, if it does.
Objects(bs, words) ==
    { findHead(bs, blockFromAddr(w)) :
        w \in { w \in words : /\ addressOnHeap(w)
                              /\ bs[blockFromAddr(w)] \in {"head", "tail"}
                              /\ bs[findHead(bs, blockFromAddr(w))] = "head" } }

ObjectAddrs(bs, head) == Words(address(head), address(skipTails(bs, head + 1)))

RECURSIVE ReachableFrom(_, _)
ReachableFrom(bs, heads) ==
    LET more == Objects(bs, { mem[a] : a \in UNION { ObjectAddrs(bs, h) : h \in heads } })
    IN  IF more \subseteq heads THEN heads ELSE ReachableFrom(bs, heads \cup more)

\* The heads of the objects reachable from the roots.
Reachable == ReachableFrom(blockState, Objects(blockState, { mem[a] : a \in RootAddrs }))

\* The pointers the program holds, and nil.
Held == {0} \cup UNION { ObjectAddrs(blockState, h) : h \in Reachable }

\* No mark phase is in progress.
NoMarking ==
    [at |-> "idle", i |-> 0, frames |-> << >>, scans |-> [b \in Blocks |-> 0],
     start |-> [b \in Blocks |-> "free"]]

\* The heap of the layout above, initialised.
NoHeap ==
    [at |-> "ready", target |-> "fixed", gcAsserts |-> FALSE,
     heapStart |-> poolStart, heapEnd |-> poolEnd, metadataSize |-> 0,
     poolStart |-> poolStart, poolEnd |-> poolEnd, numBlocks |-> NumBlocks]

\* markGlobals has not run; the tracked region is that of the layout above.
NoScan == [length |-> TrackedGlobalsLength, ran |-> FALSE, bytes |-> {}, slots |-> {}]

\* The program runs: no call of the runtime is in progress.
NoCall == [at |-> "program", size |-> 0, dest |-> 0, entered |-> << >>]

GCInit ==
    /\ mem = [a \in Addrs |-> 0]
    /\ blockState = [b \in Blocks |-> "free"]
    /\ trackedGlobalsBitmap \in { << byte >> : byte \in 0 .. 2 ^ TrackedGlobalsLength - 1 }
    /\ sp = stackTop
    /\ afterSweep = [b \in Blocks |-> "free"]
    /\ halted = FALSE
    /\ rtCall = NoCall
    /\ scanned = NoScan
    /\ heap = NoHeap
    /\ marking = NoMarking

GCIdle ==
    /\ mem = [a \in Addrs |-> 0]
    /\ blockState = [b \in Blocks |-> "free"]
    /\ trackedGlobalsBitmap = << 0 >>
    /\ sp = stackTop
    /\ afterSweep = [b \in Blocks |-> "free"]
    /\ halted = FALSE
    /\ rtCall = NoCall
    /\ scanned = NoScan
    /\ heap = NoHeap
    /\ marking = NoMarking

\* The program enters a function: its frame holds one word.
Push ==
    /\ ~halted
    /\ sp > StackLimit
    /\ sp' = sp - WordSize
    /\ \E v \in Held : mem' = [mem EXCEPT ![sp - WordSize] = v]
    /\ UNCHANGED <<notGCVars, blockState, trackedGlobalsBitmap, afterSweep, halted>>

\* The program returns from a function; the word of its frame is dead from
\* then on (nothing reads below sp) and is kept as 0.
Pop ==
    /\ ~halted
    /\ sp < stackTop
    /\ sp' = sp + WordSize
    /\ mem' = [mem EXCEPT ![sp] = 0]
    /\ UNCHANGED <<notGCVars, blockState, trackedGlobalsBitmap, afterSweep, halted>>

\* The program stores a pointer it holds, or nil, in a global, a word of
\* its stack or a word of an object it can reach.
Store ==
    /\ ~halted
    /\ \E dest \in GlobalAddrs \cup Words(sp, stackTop)
                   \cup UNION { ObjectAddrs(blockState, h) : h \in Reachable },
          v \in Held :
         /\ mem[dest] # v
         /\ mem' = [mem EXCEPT ![dest] = v]
    /\ UNCHANGED <<notGCVars, blockState, trackedGlobalsBitmap, sp, afterSweep, halted>>

AllocSizesGC == { bytesPerBlock, 2 * bytesPerBlock }

\* x = alloc(size) with x a tracked global or a word of the stack: a
\* collection cycle, then heapAlloc; the new object is zeroed.
Alloc ==
    /\ ~halted
    /\ \E size \in AllocSizesGC, dest \in RootAddrs :
         LET swept == GC(blockState)
         IN  /\ afterSweep' = swept
             /\ IF FreeRuns(swept, size) = {}
                   THEN /\ blockState' = swept
                        /\ mem' = mem
                        /\ halted' = TRUE
                   ELSE \E b \in FreeRuns(swept, size) :
                          /\ blockState' = heapAlloc(swept, b, size)
                          /\ mem' = [a \in Addrs |->
                                       IF a = dest THEN address(b)
                                       ELSE IF a \in Words(address(b),
                                                   address(b + NeededBlocks(size)))
                                               THEN 0
                                       ELSE mem[a]]
                          /\ halted' = FALSE
    /\ UNCHANGED <<notGCVars, trackedGlobalsBitmap, sp>>

\* runtime.GC()
RunGC ==
    /\ ~halted
    /\ blockState' = GC(blockState)
    /\ afterSweep' = GC(blockState)
    /\ UNCHANGED <<notGCVars, mem, trackedGlobalsBitmap, sp, halted>>

GCNext == Push \/ Pop \/ Store \/ Alloc \/ RunGC

\* The program copies the word of one of its variables, a tracked global or
\* a word of the active stack, to another: whatever the word holds, also
\* the address of an object a cycle has freed.
CopyRoot ==
    /\ ~halted
    /\ \E from \in GlobalAddrs \cup Words(sp, stackTop),
          dest \in GlobalAddrs \cup Words(sp, stackTop) :
         /\ mem[dest] # mem[from]
         /\ mem' = [mem EXCEPT ![dest] = mem[from]]
    /\ UNCHANGED <<notGCVars, blockState, trackedGlobalsBitmap, sp, afterSweep, halted>>

GCCopyNext == GCNext \/ CopyRoot

\* The same runtime, one step for every function alloc and GC call.

\* The program calls x = alloc(size); alloc calls GC (line 52).
CallAlloc ==
    /\ ~halted
    /\ rtCall.at = "program"
    /\ \E size \in AllocSizesGC, dest \in RootAddrs :
         rtCall' = [at |-> "markGlobals", size |-> size, dest |-> dest,
                  entered |-> << "alloc", "GC" >>]
    /\ UNCHANGED <<optVars, irVars, scanned, heap, marking, mem, blockState, trackedGlobalsBitmap, sp,
                   afterSweep, halted>>

\* The program calls runtime.GC().
CallGC ==
    /\ ~halted
    /\ rtCall.at = "program"
    /\ rtCall' = [at |-> "markGlobals", size |-> 0, dest |-> 0, entered |-> << "GC" >>]
    /\ UNCHANGED <<optVars, irVars, scanned, heap, marking, mem, blockState, trackedGlobalsBitmap, sp,
                   afterSweep, halted>>

\* GC, line 63
StepMarkGlobals ==
    /\ rtCall.at = "markGlobals"
    /\ blockState' = markGlobals(blockState)
    /\ rtCall' = [rtCall EXCEPT !.at = "markRoots", !.entered = Append(@, "markGlobals")]
    /\ UNCHANGED <<optVars, irVars, scanned, heap, marking, mem, trackedGlobalsBitmap, sp, afterSweep, halted>>

\* GC, line 64, with the sweep left out.
StepMarkRootsSkipsSweep ==
    /\ rtCall.at = "markRoots"
    /\ blockState' = markRoots(blockState, getCurrentStackPointer, stackTop)
    /\ rtCall' = [rtCall EXCEPT !.at = IF rtCall.entered[1] = "alloc" THEN "heapAlloc"
                                                                 ELSE "program",
                            !.entered = Append(@, "markRoots")]
    /\ UNCHANGED <<optVars, irVars, scanned, heap, marking, mem, trackedGlobalsBitmap, sp, afterSweep, halted>>

\* GC, line 64
StepMarkRoots ==
    /\ rtCall.at = "markRoots"
    /\ blockState' = markRoots(blockState, getCurrentStackPointer, stackTop)
    /\ rtCall' = [rtCall EXCEPT !.at = "sweep", !.entered = Append(@, "markRoots")]
    /\ UNCHANGED <<optVars, irVars, scanned, heap, marking, mem, trackedGlobalsBitmap, sp, afterSweep, halted>>

\* GC, line 68; GC returns, to alloc (line 53) or to the program.
StepSweep ==
    /\ rtCall.at = "sweep"
    /\ blockState' = sweep(blockState)
    /\ afterSweep' = sweep(blockState)
    /\ rtCall' = [rtCall EXCEPT !.at = IF rtCall.entered[1] = "alloc" THEN "heapAlloc"
                                                                 ELSE "program",
                            !.entered = Append(@, "sweep")]
    /\ UNCHANGED <<optVars, irVars, scanned, heap, marking, mem, trackedGlobalsBitmap, sp, halted>>

\* alloc, line 53: heapAlloc claims a run of free blocks, or there is none.
StepHeapAlloc ==
    /\ rtCall.at = "heapAlloc"
    /\ rtCall' = [rtCall EXCEPT !.at = "program", !.entered = Append(@, "heapAlloc")]
    /\ IF FreeRuns(blockState, rtCall.size) = {}
          THEN /\ halted' = TRUE
               /\ UNCHANGED <<blockState, mem>>
          ELSE \E b \in FreeRuns(blockState, rtCall.size) :
                 /\ blockState' = heapAlloc(blockState, b, rtCall.size)
                 /\ mem' = [a \in Addrs |->
                              IF a = rtCall.dest THEN address(b)
                              ELSE IF a \in Words(address(b),
                                                  address(b + NeededBlocks(rtCall.size)))
                                      THEN 0
                              ELSE mem[a]]
                 /\ halted' = FALSE
    /\ UNCHANGED <<optVars, irVars, scanned, heap, marking, trackedGlobalsBitmap, sp, afterSweep>>

\* The program runs while no call of the runtime is in progress.
ProgramStep ==
    /\ rtCall.at = "program"
    /\ (Push \/ Pop \/ Store)

\* markGlobals alone, on tracked regions of every length up to MaxTracked.
\* The globals section has one slot more than the longest tracked region and
\* the memory that holds the bitmap one byte more than the longest bitmap.
MaxTracked == 10
MaxBits == 2
MaxPointers == 1

BitmapBytes == (MaxTracked + 7) \div 8 + 1
BitIndices == 0 .. 8 * BitmapBytes - 1
SlotAddr(i) == trackedGlobalsStart + i * WordSize
SlotAddrs == { SlotAddr(i) : i \in 0 .. MaxTracked }

\* The heap holds objects of two blocks and of one block, all zeroed.
MarkGlobalsInit ==
    /\ mem = [a \in SlotAddrs \cup PoolAddrs |-> 0]
    /\ blockState = [b \in Blocks |-> IF b % 3 = 1 THEN "tail" ELSE "head"]
    /\ trackedGlobalsBitmap = [k \in 1 .. BitmapBytes |-> 0]
    /\ sp = stackTop
    /\ afterSweep = [b \in Blocks |-> "free"]
    /\ halted = FALSE
    /\ rtCall = NoCall
    /\ heap = NoHeap
    /\ marking = NoMarking
    /\ scanned \in { [length |-> n, ran |-> FALSE, bytes |-> {}, slots |-> {}] :
                       n \in 0 .. MaxTracked }

\* The compiler (or whatever follows the bitmap in memory) has a bit set.
SetBitmapBit ==
    /\ ~scanned.ran
    /\ Cardinality({ i \in BitIndices : BitSet(trackedGlobalsBitmap, i) }) < MaxBits
    /\ \E i \in BitIndices :
         /\ ~BitSet(trackedGlobalsBitmap, i)
         /\ trackedGlobalsBitmap' =
               [trackedGlobalsBitmap EXCEPT ![(i \div 8) + 1] = @ + 2 ^ (i % 8)]
    /\ UNCHANGED <<notGCVars, mem, blockState, sp, afterSweep, halted>>

\* The program stores a pointer to or into an object in a global slot.
StoreGlobal ==
    /\ ~scanned.ran
    /\ Cardinality({ a \in SlotAddrs : mem[a] # 0 }) < MaxPointers
    /\ \E a \in SlotAddrs, v \in PoolAddrs :
         /\ mem[a] = 0
         /\ mem' = [mem EXCEPT ![a] = v]
    /\ UNCHANGED <<notGCVars, blockState, trackedGlobalsBitmap, sp, afterSweep, halted>>

RunMarkGlobals ==
    /\ ~scanned.ran
    /\ LET st == markGlobalsReading([bs |-> blockState, bytes |-> {}, slots |-> {}],
                                    0, scanned.length, trackedGlobalsBitmap)
       IN  /\ blockState' = st.bs
           /\ scanned' = [scanned EXCEPT !.ran = TRUE, !.bytes = st.bytes,
                                          !.slots = st.slots]
    /\ UNCHANGED <<optVars, irVars, rtCall, heap, marking, mem, trackedGlobalsBitmap, sp, afterSweep,
                   halted>>

MarkGlobalsNext == SetBitmapBit \/ StoreGlobal \/ RunMarkGlobals

\* Heap layout and init(). uintptr is PtrBits wide.
PtrBits == 20
Modulus == 2 ^ PtrBits
Wrap(x) == x % Modulus

wasmPageSize == 65536
blocksPerStateByte == 4

\* No bits cleared.
ClearNone(x, n) == x

\* x &^ (n - 1) for n a power of two
ClearLow(x, n) == x - (x % n)

\* heapEnd on WebAssembly
wasmHeapEnd(heapStart) == ClearLow(Wrap(heapStart + wasmPageSize - 1), wasmPageSize)

\* init: the heap record after it. The sanity check panics before the
\* metadata is zeroed.
init(h) ==
    LET totalSize    == Wrap(h.heapEnd - h.heapStart)
        metadataSize == totalSize \div (blocksPerStateByte * bytesPerBlock)
        start        == ClearLow(Wrap(h.heapStart + metadataSize + (bytesPerBlock - 1)),
                                 bytesPerBlock)
        end          == ClearLow(h.heapEnd, bytesPerBlock)
        numBlocks    == Wrap(end - start) \div bytesPerBlock
    IN  [h EXCEPT !.metadataSize = metadataSize,
                  !.poolStart = start,
                  !.poolEnd = end,
                  !.numBlocks = numBlocks,
                  !.at = IF /\ h.gcAsserts
                            /\ Wrap(metadataSize * blocksPerStateByte) < numBlocks
                            THEN "panicked"
                            ELSE "ready"]

\* The state of block b after init: memzero cleared the first metadataSize
\* bytes from heapStart, the state of a block in a later byte is whatever the
\* memory held.
StateAfterInit(h, b) ==
    IF b \div blocksPerStateByte < h.metadataSize THEN "free" ELSE "unknown"

\* Values of __heap_base: around page boundaries of the first pages.
MaxPage == 2
PageOffsets == {0, 1, 2, 3, 4, 16, 32768, 65520, 65532, 65533, 65534, 65535}
WasmHeapBases == { page * wasmPageSize + d : page \in 0 .. MaxPage, d \in PageOffsets }

\* Values of heapStart and _heap_end on a target whose linker provides both:
\* the lowest addresses and the highest ones.
MaxHeap == 72
TopRange == 12
HeapAddrs == (0 .. MaxHeap) \cup (Modulus - TopRange .. Modulus - 1)

Unlinked ==
    [at |-> "unlinked", target |-> "none", gcAsserts |-> FALSE,
     heapStart |-> 0, heapEnd |-> 0, metadataSize |-> 0,
     poolStart |-> 0, poolEnd |-> 0, numBlocks |-> 0]

HeapInit ==
    /\ mem = [a \in Addrs |-> 0]
    /\ blockState = [b \in Blocks |-> "free"]
    /\ trackedGlobalsBitmap = << 0 >>
    /\ sp = stackTop
    /\ afterSweep = [b \in Blocks |-> "free"]
    /\ halted = FALSE
    /\ rtCall = NoCall
    /\ scanned = NoScan
    /\ heap = Unlinked
    /\ marking = NoMarking

\* The program is built for WebAssembly, with or without the collector's
\* sanity checks.
LinkWasm ==
    /\ heap.at = "unlinked"
    /\ \E base \in WasmHeapBases, asserts \in BOOLEAN :
         heap' = [heap EXCEPT !.at = "linked", !.target = "wasm",
                              !.gcAsserts = asserts,
                              !.heapStart = base,
                              !.heapEnd = wasmHeapEnd(base)]
    /\ UNCHANGED <<optVars, irVars, rtCall, scanned, marking, mem, blockState,
                   trackedGlobalsBitmap, sp, afterSweep, halted>>

\* The program is built for a target whose linker provides the heap's end.
LinkWithHeapEnd ==
    /\ heap.at = "unlinked"
    /\ \E heapStart \in HeapAddrs, heapEnd \in HeapAddrs, asserts \in BOOLEAN :
         /\ heapStart <= heapEnd
         /\ heap' = [heap EXCEPT !.at = "linked", !.target = "other",
                                 !.gcAsserts = asserts,
                                 !.heapStart = heapStart,
                                 !.heapEnd = heapEnd]
    /\ UNCHANGED <<optVars, irVars, rtCall, scanned, marking, mem, blockState,
                   trackedGlobalsBitmap, sp, afterSweep, halted>>

RunInit ==
    /\ heap.at = "linked"
    /\ heap' = init(heap)
    /\ UNCHANGED <<optVars, irVars, rtCall, scanned, marking, mem, blockState,
                   trackedGlobalsBitmap, sp, afterSweep, halted>>

HeapNext == LinkWasm \/ LinkWithHeapEnd \/ RunInit

\* The mark phase of GC(), one loop iteration of markGlobals or markRoots at
\* a time.  marking.frames are the markRoots calls on the stack, the
\* innermost last, each with the address it reads next and its end.

\* markRoot up to the call of markRoots, for an object that may be marked.
markRootAgain(st, root) ==
    IF ~addressOnHeap(root) THEN st
    ELSE LET block  == blockFromAddr(root)
             head   == findHead(st.bs, block)
             marked == [st.bs EXCEPT ![head] = "mark"]
             next   == findNext(marked, block)
         IN  [bs     |-> marked,
              frames |-> Append(st.frames, [addr |-> address(head),
                                            end |-> address(next)]),
              scans  |-> [st.scans EXCEPT ![head] = @ + 1]]

\* markRoot up to the call of markRoots, which is the new innermost frame.
markRootCall(st, root) ==
    IF ~addressOnHeap(root) THEN st
    ELSE LET block == blockFromAddr(root)
             head  == findHead(st.bs, block)
         IN  IF st.bs[head] = "mark" THEN st
             ELSE LET marked == [st.bs EXCEPT ![head] = "mark"]
                      next   == findNext(marked, block)
                  IN  [bs     |-> marked,
                       frames |-> Append(st.frames, [addr |-> address(head),
                                                     end |-> address(next)]),
                       scans  |-> [st.scans EXCEPT ![head] = @ + 1]]

MarkState == [bs |-> blockState, frames |-> marking.frames, scans |-> marking.scans]

\* The heaps: objects of one or more blocks, free blocks, and in every word
\* of an object nil or a pointer to or into an object.
Layouts ==
    { bs \in [Blocks -> {"head", "tail", "free"}] :
        \A b \in Blocks : bs[b] = "tail" => b > 0 /\ bs[b - 1] \in {"head", "tail"} }

AllocatedAddrs(bs) == { address(b) : b \in { b \in Blocks : bs[b] # "free" } }

MarkInit ==
    /\ blockState \in Layouts
    /\ mem \in { f \in [Addrs -> {0} \cup PoolAddrs] :
                    /\ \A a \in Addrs : f[a] # 0 => f[a] \in AllocatedAddrs(blockState)
                    /\ \A a \in PoolAddrs \ AllocatedAddrs(blockState) : f[a] = 0
                    /\ \A a \in StackAddrs : f[a] = 0 }
    /\ trackedGlobalsBitmap \in { << byte >> : byte \in 0 .. 2 ^ TrackedGlobalsLength - 1 }
    /\ sp = stackTop
    /\ afterSweep = [b \in Blocks |-> "free"]
    /\ halted = FALSE
    /\ rtCall = NoCall
    /\ scanned = NoScan
    /\ heap = NoHeap
    /\ marking = [NoMarking EXCEPT !.at = "markGlobals", !.start = blockState]

\* markGlobals, one iteration of its loop once the markRoots calls of the
\* iteration before have returned.
MarkGlobalsIteration ==
    /\ marking.at = "markGlobals"
    /\ marking.frames = << >>
    /\ marking.i < TrackedGlobalsLength
    /\ LET addr == trackedGlobalsStart + marking.i * WordSize
           st   == IF BitSet(trackedGlobalsBitmap, marking.i)
                      THEN markRootCall(MarkState, mem[addr])
                      ELSE MarkState
       IN  /\ blockState' = st.bs
           /\ marking' = [marking EXCEPT !.i = @ + 1, !.frames = st.frames,
                                          !.scans = st.scans]
    /\ UNCHANGED <<optVars, irVars, rtCall, scanned, heap, mem, trackedGlobalsBitmap, sp,
                   afterSweep, halted>>

\* markGlobals returns and GC calls markRoots on the stack.
MarkStack ==
    /\ marking.at = "markGlobals"
    /\ marking.frames = << >>
    /\ ~(marking.i < TrackedGlobalsLength)
    /\ marking' = [marking EXCEPT !.at = "markRoots",
                      !.frames = << [addr |-> getCurrentStackPointer, end |-> stackTop] >>]
    /\ UNCHANGED <<optVars, irVars, rtCall, scanned, heap, mem, blockState,
                   trackedGlobalsBitmap, sp, afterSweep, halted>>

\* One iteration of the loop of the innermost markRoots call.
MarkRootsIteration ==
    /\ marking.frames # << >>
    /\ LET n     == Len(marking.frames)
           frame == marking.frames[n]
       IN  /\ frame.addr # frame.end
           /\ LET st == markRootCall(
                            [MarkState EXCEPT !.frames[n].addr = @ + WordSize],
                            mem[frame.addr])
              IN  /\ blockState' = st.bs
                  /\ marking' = [marking EXCEPT !.frames = st.frames, !.scans = st.scans]
    /\ UNCHANGED <<optVars, irVars, rtCall, scanned, heap, mem, trackedGlobalsBitmap, sp,
                   afterSweep, halted>>

\* The innermost markRoots call has reached its end and returns; when it is
\* the call on the stack, the mark phase is over.
MarkRootsReturn ==
    /\ marking.frames # << >>
    /\ LET n == Len(marking.frames)
       IN  /\ marking.frames[n].addr = marking.frames[n].end
           /\ marking' = [marking EXCEPT
                            !.frames = SubSeq(@, 1, n - 1),
                            !.at = IF marking.at = "markRoots" /\ n = 1 THEN "marked"
                                                                       ELSE @]
    /\ UNCHANGED <<optVars, irVars, rtCall, scanned, heap, mem, blockState,
                   trackedGlobalsBitmap, sp, afterSweep, halted>>

MarkNext == MarkGlobalsIteration \/ MarkStack \/ MarkRootsIteration \/ MarkRootsReturn

GCStepsNext ==
    \/ ProgramStep
    \/ CallAlloc
    \/ CallGC
    \/ StepMarkGlobals
    \/ StepMarkRoots
    \/ StepSweep
    \/ StepHeapAlloc

-----------------------------------------------------------------------------
(***************************************************************************)
(* Specifications                                                          *)
(***************************************************************************)

OptIdle ==
    /\ cfg = [optLevel |-> 0, sizeLevel |-> 0, inlinerThreshold |-> 0,
              panicStrategy |-> "print", gcPrecise |-> FALSE]
    /\ pc = "idle"
    /\ steps = << >>
    /\ valid = TRUE
    /\ verdicts = << >>
    /\ lgErr = "nil"
    /\ result = "none"

OptimizeInit == OptInit /\ IRIdle /\ GCIdle

SpecOptimize == OptimizeInit /\ [][OptNext]_vars

AllocsSpecInit == AllocsInit /\ OptIdle /\ GCIdle

SpecAllocs == AllocsSpecInit /\ [][AllocsNext]_vars

StringSpecInit == StringInit /\ OptIdle /\ GCIdle

SpecStringToBytes == StringSpecInit /\ [][StringNext]_vars

MapsSpecInit == MapsInit /\ OptIdle /\ GCIdle

SpecMaps == MapsSpecInit /\ [][MapsNext]_vars

SpecMapOperands == MapsSpecInit /\ [][MapOperandsNext]_vars

IsNilSpecInit == IsNilInit /\ OptIdle /\ GCIdle

SpecIsNil == IsNilSpecInit /\ [][IsNilNext]_vars

\* Optimize is at its start, with either panic strategy.
PanicsSpecInit ==
    /\ PanicsInit
    /\ GCIdle
    /\ cfg \in { [optLevel |-> 0, sizeLevel |-> 0, inlinerThreshold |-> 0,
                  panicStrategy |-> strategy, gcPrecise |-> FALSE]
                    : strategy \in PanicStrategies }
    /\ pc = "idle"
    /\ steps = << >>
    /\ valid = TRUE
    /\ verdicts = << >>
    /\ lgErr = "nil"
    /\ result = "none"

SpecPanics == PanicsSpecInit /\ [][PanicsNext]_vars

GCSpecInit == GCInit /\ OptIdle /\ IRIdle

SpecGC == GCSpecInit /\ [][GCNext]_vars

SpecGCCopy == GCSpecInit /\ [][GCCopyNext]_vars

GCStepsInit == GCInit /\ OptIdle /\ IRIdle

SpecGCSteps == GCStepsInit /\ [][GCStepsNext]_vars

MarkSpecInit == OptIdle /\ IRIdle /\ MarkInit
SpecMark == MarkSpecInit /\ [][MarkNext]_vars /\ WF_vars(MarkNext)

HeapSpecInit == OptIdle /\ IRIdle /\ HeapInit
SpecHeap == HeapSpecInit /\ [][HeapNext]_vars

MarkGlobalsSpecInit == OptIdle /\ IRIdle /\ MarkGlobalsInit
SpecMarkGlobals == MarkGlobalsSpecInit /\ [][MarkGlobalsNext]_vars

-----------------------------------------------------------------------------
(***************************************************************************)
(* Sequences                                                               *)
(***************************************************************************)

Range(s) == { s[i] : i \in DOMAIN s }

Count(s, x) == Cardinality({ i \in DOMAIN s : s[i] = x })

\* The index of the first x in s, Len(s) + 1 when there is none.
FirstIndex(s, x) ==
    IF x \in Range(s)
       THEN CHOOSE i \in DOMAIN s : s[i] = x /\ \A j \in 1 .. i - 1 : s[j] # x
       ELSE Len(s) + 1

IsPrefix(s, t) == Len(s) <= Len(t) /\ \A i \in DOMAIN s : s[i] = t[i]

-----------------------------------------------------------------------------
(***************************************************************************)
(* Properties of the escape analysis and of OptimizeAllocs                 *)
(***************************************************************************)

AllocCalls(m) ==
    { i \in Ids(m) : m.insts[i].kind = "call"
                     /\ CalledValue(m, i) = Func("runtime.alloc") }

\* The claim's condition on a call of runtime.alloc: a constant size of at
\* most 256 and a result (or single bitcast of it) that does not escape.
Promotable(m, h) ==
    /\ Operand(m, h, 0).k = "const"
    /\ Operand(m, h, 0).n <= 256
    /\ ~doesEscape(m, InstV(EffectiveValue(m, h)))

\* w words of `alignment` bytes are ceil(n / alignment) words.
IsCeilWords(w, n, alignment) ==
    /\ w * alignment >= n
    /\ w = 0 \/ (w - 1) * alignment < n

\* In module m, call h of module m0 has been replaced by a stack allocation.
ReplacedByAlloca(m0, m, h) ==
    LET e  == EffectiveValue(m0, h)
        fn == m0.insts[h].fn
        n  == Operand(m0, h, 0).n
    IN  /\ h \notin Ids(m)
        /\ e \notin Ids(m)
        /\ \E a, st, bc \in Ids(m) \ Ids(m0) :
             /\ m.insts[a].kind = "alloca"
             /\ m.insts[a].fn = fn
             /\ m.insts[a].aux[1] = 8 * m.alignment
             /\ IsCeilWords(m.insts[a].aux[2], n, m.alignment)
             /\ m.insts[st].kind = "store"
             /\ m.insts[st].ops = << ZeroValue("array"), InstV(a) >>
             /\ m.insts[bc].kind = "bitcast"
             /\ m.insts[bc].ops = << InstV(a) >>
             /\ m.insts[bc].ty = m0.insts[e].ty
             /\ Position(m, st) = Position(m, a) + 1
             /\ Position(m, bc) = Position(m, a) + 2
             /\ \A j \in Ids(m0) \cap Ids(m) :
                  m.insts[j].fn = fn => Position(m, bc) < Position(m, j)
             /\ \A u \in UseSlots(m0, InstV(e)) :
                  /\ u[1] \in Ids(m)
                  /\ m.insts[u[1]].ops[u[2]] = InstV(bc)

\* In module m, call h of module m0 is as it was.
LeftUnchanged(m0, m, h) ==
    /\ h \in Ids(m)
    /\ m.insts[h] = m0.insts[h]
    /\ UseSlots(m, InstV(h)) = UseSlots(m0, InstV(h))

\* C6: after optimize_allocs no call of runtime.alloc with a constant size
\* <= 256 and a non-escaping result remains; each such call of the module
\* the pass was given has been replaced by alloca, zero store and bitcast at
\* the top of its function, with its uses moved to the bitcast; every other
\* call of runtime.alloc is left as it was.
C6_AllocsPromoted ==
    phase = "optimize_allocs" =>
      /\ mod.fault = "none"
      /\ \A h \in AllocCalls(mod) : ~Promotable(mod, h)
      /\ \A h \in AllocCalls(mod0) :
           IF Promotable(mod0, h)
              THEN ReplacedByAlloca(mod0, mod, h)
              ELSE LeftUnchanged(mod0, mod, h)

\* The pass has replaced a 13-byte allocation that was used through a
\* bitcast by an alloca of 4 words of 4 bytes.
C6_Witness ==
    /\ phase = "optimize_allocs"
    /\ \E h \in AllocCalls(mod0) :
         /\ Promotable(mod0, h)
         /\ EffectiveValue(mod0, h) # h
         /\ UseSlots(mod0, InstV(EffectiveValue(mod0, h))) # {}
         /\ Operand(mod0, h, 0).n = 13
    /\ \E a \in Ids(mod) : mod.insts[a].kind = "alloca" /\ mod.insts[a].aux = << 32, 4 >>

RECURSIVE OnlyListedUses(_, _)
\* Every use of v is one the escape analysis lists as harmless: a load, an
\* icmp, a store that does not store v, a call of a function whose every
\* parameter that is v is nocapture, a GEP or bitcast that has only such
\* uses itself.
OnlyListedUses(m, v) ==
    \A s \in UseSlots(m, v) :
        LET u == m.insts[s[1]]
        IN  \/ u.kind \in {"load", "icmp"}
            \/ u.kind = "store" /\ u.ops[1] # v
            \/ /\ u.kind = "call"
               /\ IsAFunction(u.ops[Len(u.ops)])
               /\ \A k \in 1 .. Len(u.ops) - 1 :
                    u.ops[k] = v =>
                      "nocapture" \in Declarations[u.ops[Len(u.ops)].name].attrs[k]
            \/ u.kind \in {"getelementptr", "bitcast"} /\ OnlyListedUses(m, InstV(s[1]))

ListedKinds == {"load", "icmp", "store", "call", "getelementptr", "bitcast"}

\* does_escape answers false exactly for the values with only listed uses.
C7_Characterised ==
    \A v \in PointerValues(mod) : doesEscape(mod, v) <=> ~OnlyListedUses(mod, v)

\* A step that adds instruction mod.next, a use of pointers: if it is a
\* harmless use of each of them, no answer of does_escape changes; if it is
\* of a kind that is not listed, does_escape is true of the pointers it uses.
C7_MonotoneStep ==
    (phase = "input" /\ phase' = "input" /\ mod' # mod) =>
        LET new  == mod.next
            used == { v \in PointerValues(mod) : new \in Users(mod', v) }
            alone == [mod' EXCEPT !.insts = [j \in {new} |-> mod'.insts[new]]]
        IN  /\ (\A v \in used : OnlyListedUses(alone, v))
                 => \A p \in PointerValues(mod) :
                       doesEscape(mod', p) <=> doesEscape(mod, p)
            /\ mod'.insts[new].kind \notin ListedKinds
                 => \A v \in used : doesEscape(mod', v)

\* C7: does_escape(v) is false exactly when every use of v is a load, an
\* icmp, a store that does not store v, a call whose parameters that are v
\* all carry nocapture on a directly called function, or a GEP or bitcast
\* whose result does not escape; adding a use of these kinds changes no
\* answer and adding a use of any other kind makes the answer true.
C7_DoesEscape == []C7_Characterised /\ [][C7_MonotoneStep]_vars

\* A pointer that does not escape although it is passed, through a GEP, to
\* a call (in a nocapture parameter).
C7_Witness ==
    /\ phase = "input"
    /\ \E v \in PointerValues(mod) :
         /\ ~doesEscape(mod, v)
         /\ \E g \in Users(mod, v) :
              /\ mod.insts[g].kind = "getelementptr"
              /\ \E c \in Users(mod, InstV(g)) : mod.insts[c].kind = "call"

-----------------------------------------------------------------------------
(***************************************************************************)
(* Properties of OptimizeStringToBytes, OptimizeMaps and the lowering of   *)
(* runtime.isnil                                                           *)
(***************************************************************************)

\* Every use slot of instruction i of module m0 holds value v in module m.
UsesNowHold(m0, m, i, v) ==
    \A s \in UseSlots(m0, InstV(i)) :
        s[1] \in Ids(m) /\ m.insts[s[1]].ops[s[2]] = v

\* A use of a stringToBytes call the pass rewrites: the extract of an
\* integer field, or of the pointer field when that is only read.
Rewritten(m, e) ==
    /\ m.insts[e].kind = "extractvalue"
    /\ \/ m.insts[e].ty \in IntegerTypes
       \/ m.insts[e].ty \in PointerTypes /\ isReadOnly(m, InstV(e))

\* C8: after optimize_string_to_bytes, for every call of
\* runtime.stringToBytes the pass was given: each extractvalue of an integer
\* field, and each extractvalue of the pointer field that is only read, is
\* erased and its users hold the string's length or pointer instead; every
\* other use is as it was; the call is erased if and only if every one of
\* its uses was so rewritten, and is unchanged otherwise.
C8_StringToBytesRewritten ==
    phase = "optimize_string_to_bytes" =>
      /\ mod.fault = "none"
      /\ \A c \in StringToBytesCalls(mod0) :
           /\ \A e \in Users(mod0, InstV(c)) :
                IF Rewritten(mod0, e)
                   THEN /\ e \notin Ids(mod)
                        /\ UsesNowHold(mod0, mod, e,
                               IF mod0.insts[e].ty \in IntegerTypes
                                  THEN Operand(mod0, c, 1) ELSE Operand(mod0, c, 0))
                   ELSE /\ e \in Ids(mod)
                        /\ mod.insts[e] = mod0.insts[e]
           /\ c \notin Ids(mod) <=> \A e \in Users(mod0, InstV(c)) : Rewritten(mod0, e)
           /\ c \in Ids(mod) => mod.insts[c] = mod0.insts[c]

\* The pass has removed a call whose length and pointer were extracted and
\* used, and, in the same or another run, kept a call whose pointer is
\* written through.
C8_Witness ==
    /\ phase = "optimize_string_to_bytes"
    /\ \E c \in StringToBytesCalls(mod0) :
         /\ c \notin Ids(mod)
         /\ \E e1, e2 \in Users(mod0, InstV(c)) :
              /\ mod0.insts[e1].ty \in IntegerTypes
              /\ mod0.insts[e2].ty \in PointerTypes
              /\ UseSlots(mod0, InstV(e1)) # {}
              /\ UseSlots(mod0, InstV(e2)) # {}

\* Use slot <<u, k>> of value v reads only: u is a getelementptr all of whose
\* uses read only, or a call of a function (not through a pointer) with v an
\* argument whose parameter carries readonly.
RECURSIVE OnlyRead(_, _)
ReadingSlot(m, v, u, k) ==
    \/ /\ m.insts[u].kind = "getelementptr"
       /\ OnlyRead(m, InstV(u))
    \/ /\ m.insts[u].kind = "call"
       /\ k < Len(m.insts[u].ops)
       /\ CalledValue(m, u).k = "func"
       /\ k <= Declarations[CalledValue(m, u).name].nparams
       /\ "readonly" \in Declarations[CalledValue(m, u).name].attrs[k]

\* Every use of v, followed through getelementptr chains, reads only.
OnlyRead(m, v) == \A s \in UseSlots(m, v) : ReadingSlot(m, v, s[1], s[2])

\* The pointer-typed extracts of the results of stringToBytes calls.
PointerExtracts(m, c) ==
    { e \in Users(m, InstV(c)) : /\ m.insts[e].kind = "extractvalue"
                                 /\ m.insts[e].ty \in PointerTypes }

\* C17: optimize_string_to_bytes replaces a pointer-typed extractvalue of a
\* stringToBytes result by the string pointer only when every use of the
\* extract, followed through getelementptr chains, is a call of a direct
\* function whose parameter at every matching position carries readonly;
\* with any other use the extract stays as it was and the call is not
\* erased; every use the string pointer has gained reads only.
C17_PointerReplacedOnlyIfReadOnly ==
    phase = "optimize_string_to_bytes" =>
      /\ mod.fault = "none"
      /\ \A c \in StringToBytesCalls(mod0) :
           LET strptr == Operand(mod0, c, 0)
           IN  /\ \A e \in PointerExtracts(mod0, c) :
                    IF OnlyRead(mod0, InstV(e))
                       THEN /\ e \notin Ids(mod)
                            /\ UsesNowHold(mod0, mod, e, strptr)
                       ELSE /\ e \in Ids(mod)
                            /\ mod.insts[e] = mod0.insts[e]
                            /\ c \in Ids(mod)
                            /\ mod.insts[c] = mod0.insts[c]
               /\ \A s \in UseSlots(mod, strptr) \ UseSlots(mod0, strptr) :
                    ReadingSlot(mod, strptr, s[1], s[2])

\* The pass has replaced a pointer extract that is read through a
\* getelementptr by a call, and the string pointer has gained a use.
C17_Witness ==
    /\ phase = "optimize_string_to_bytes"
    /\ \E c \in StringToBytesCalls(mod0) : \E e \in PointerExtracts(mod0, c) :
         /\ e \notin Ids(mod)
         /\ \E g \in Users(mod0, InstV(e)) :
              /\ mod0.insts[g].kind = "getelementptr"
              /\ \E u \in Users(mod0, InstV(g)) : mod0.insts[u].kind = "call"
         /\ UseSlots(mod, Operand(mod0, c, 0)) \ UseSlots(mod0, Operand(mod0, c, 0)) # {}

\* A call of runtime.hashmapMake with no use but updates of the map.
OnlyUpdated(m, h) ==
    \A u \in Users(m, InstV(h)) :
        /\ m.insts[u].kind = "call"
        /\ CalledValue(m, u) \in { Func("runtime.hashmapBinarySet"),
                                   Func("runtime.hashmapStringSet") }

\* C9: after optimize_maps, every call of runtime.hashmapMake the pass was
\* given whose uses were all calls of runtime.hashmapBinarySet or
\* runtime.hashmapStringSet is removed together with all of these calls, and
\* every call of runtime.hashmapMake with a use of another kind is left in
\* the module as it was.
C9_UnusedMapsRemoved ==
    phase = "optimize_maps" =>
      /\ mod.fault = "none"
      /\ \A h \in HashmapMakeCalls(mod0) :
           IF OnlyUpdated(mod0, h)
              THEN /\ h \notin Ids(mod)
                   /\ \A u \in Users(mod0, InstV(h)) : u \notin Ids(mod)
              ELSE /\ h \in Ids(mod)
                   /\ mod.insts[h] = mod0.insts[h]

\* The pass has removed a map that was updated and has kept, in the same
\* module, a map that is updated and read.
C9_Witness ==
    /\ phase = "optimize_maps"
    /\ \E h1, h2 \in HashmapMakeCalls(mod0) :
         /\ Users(mod0, InstV(h1)) # {}
         /\ h1 \notin Ids(mod)
         /\ h2 \in Ids(mod)
         /\ \E u, w \in Users(mod0, InstV(h2)) :
              /\ mod0.insts[u] = HashmapSetCall("runtime.hashmapBinarySet", InstV(h2),
                                                 mod0.insts[h2].fn)
              /\ mod0.insts[w] = HashmapGetCall(InstV(h2), mod0.insts[h2].fn)

\* The calls of the two update functions.
UpdateCalls(m) ==
    { u \in Ids(m) : /\ m.insts[u].kind = "call"
                     /\ CalledValue(m, u) \in { Func("runtime.hashmapBinarySet"),
                                                Func("runtime.hashmapStringSet") } }

AtCallSite(m0, m, c, i) ==
    /\ m.insts[i].fn = m0.insts[c].fn
    /\ \A j \in Ids(m0) \cap Ids(m) :
         m0.insts[j].fn = m0.insts[c].fn =>
            (Position(m, j) < Position(m, i) <=> Position(m0, j) < Position(m0, c))

\* C10: after the lowering of runtime.isnil the function has no use; for
\* every call runtime.isnil(p) the lowering was given there is, where the
\* call stood, an icmp eq of p (of p's operand if p is a bitcast
\* instruction) and the null constant of that pointer's type; the users of
\* the call use the icmp and the call is erased.
C10_IsNilLowered ==
    phase = "lower_isnil" =>
      /\ mod.fault = "none"
      /\ UseSlots(mod, Func("runtime.isnil")) = {}
      /\ \A c \in IsNilCalls(mod0) :
           LET p   == Operand(mod0, c, 0)
               ptr == IF IsA(mod0, p, "bitcast") THEN mod0.insts[p.n].ops[1] ELSE p
           IN  /\ c \notin Ids(mod)
               /\ \E i \in Ids(mod) \ Ids(mod0) :
                    /\ mod.insts[i].kind = "icmp"
                    /\ mod.insts[i].aux = << "eq" >>
                    /\ mod.insts[i].ops = << ptr, ConstPointerNull(TypeOf(mod0, ptr)) >>
                    /\ AtCallSite(mod0, mod, c, i)
                    /\ UsesNowHold(mod0, mod, c, InstV(i))

\* The lowering has replaced a call on a pointer that was cast to i8*, and
\* whose result was used, by a comparison of the pointer before the cast.
C10_Witness ==
    /\ phase = "lower_isnil"
    /\ mod.fault = "none"
    /\ \E c \in IsNilCalls(mod0) :
         /\ IsA(mod0, Operand(mod0, c, 0), "bitcast")
         /\ UseSlots(mod0, InstV(c)) # {}
         /\ \E i \in Ids(mod) :
              /\ mod.insts[i].kind = "icmp"
              /\ mod.insts[i].ops[2] = ConstPointerNull("T*")
              /\ UseSlots(mod, InstV(i)) # {}

-----------------------------------------------------------------------------
(***************************************************************************)
(* Properties of replacePanicsWithTrap                                     *)
(***************************************************************************)

\* A use of a panic function that is not a call of it.
BadPanicUse(m) ==
    \E n \in DOMAIN PanicFunctions :
        \E u \in Users(m, Func(PanicFunctions[n])) :
            m.insts[u].kind # "call" \/ CalledValue(m, u) # Func(PanicFunctions[n])

\* m is m0 with exactly one new call of llvm.trap right before every call
\* of a panic function, and nothing else changed.
TrapsInserted(m0, m) ==
    /\ \A i \in Ids(m0) : i \in Ids(m) /\ m.insts[i] = m0.insts[i]
    /\ \A i \in Ids(m) \ Ids(m0) :
         /\ m.insts[i].kind = "call"
         /\ m.insts[i].ops = << Func("llvm.trap") >>
         /\ Position(m, i) < Len(m.body[m.insts[i].fn])
         /\ m.body[m.insts[i].fn][Position(m, i) + 1] \in PanicCalls(m0)
    /\ \A p \in PanicCalls(m0) :
         /\ Position(m, p) > 1
         /\ m.body[m.insts[p].fn][Position(m, p) - 1] \in Ids(m) \ Ids(m0)
    /\ \A fn \in DOMAIN m0.body :
         SelectSeq(m.body[fn], LAMBDA i : i \in Ids(m0)) = m0.body[fn]

\* C11: with panic strategy "trap", replace_panics_with_trap runs before the
\* first function-pass run; after it every call of runtime._panic and of
\* runtime.runtimePanic is still there and has exactly one new call of
\* llvm.trap right before it, unless a panic function has a use that is not
\* a call of it, and then the pass fails hard.  With another strategy the
\* pass does not run and the module is as it was.
C11_PanicsTrapped ==
    /\ phase \in {"funcPasses", "panicked"} =>
         IF cfg.panicStrategy = "trap"
            THEN /\ steps = << "replace_panics_with_trap" >>
                 /\ phase = "panicked" <=> BadPanicUse(mod0)
                 /\ phase = "funcPasses" => mod.fault = "none" /\ TrapsInserted(mod0, mod)
            ELSE /\ steps = << >>
                 /\ phase = "funcPasses"
                 /\ mod = mod0
    /\ phase = "function-passes" =>
         steps = IF cfg.panicStrategy = "trap"
                    THEN << "replace_panics_with_trap", "function-passes" >>
                    ELSE << "function-passes" >>

\* The pass has put a trap before two calls of panic functions that stand
\* next to each other in one function.
C11_Witness ==
    /\ phase = "funcPasses"
    /\ cfg.panicStrategy = "trap"
    /\ \E p, q \in PanicCalls(mod0) :
         /\ mod0.insts[p].fn = mod0.insts[q].fn
         /\ Position(mod0, q) = Position(mod0, p) + 1
         /\ Position(mod, q) = Position(mod, p) + 2
         /\ CalledValue(mod0, p) # CalledValue(mod0, q)

-----------------------------------------------------------------------------
(***************************************************************************)
(* Properties of the collector                                             *)
(***************************************************************************)

\* A step of the runtime that ran a collection cycle.
Collected == RunGC \/ Alloc

\* The heads of the objects reachable from the tracked globals whose bit is
\* set alone.
ReachableFromGlobals ==
    ReachableFrom(blockState,
        Objects(blockState, { mem[a] : a \in RootAddrs \cap GlobalAddrs }))

\* C2: after any GC cycle, the one in alloc included, every object that was
\* reachable from a tracked global whose bit is set or from a word of the
\* stack between the stack pointer and stackTop, directly or through
\* reachable objects, still has its head block in state head.
C2_ReachableObjectsSurvive ==
    [][Collected => \A h \in Reachable : afterSweep'[h] = "head"]_vars

\* What the cycle does keep: the objects reachable from the globals.
GlobalsReachableSurvive ==
    [][Collected => \A h \in ReachableFromGlobals : afterSweep'[h] = "head"]_vars

\* The blocks of the object whose head is h.
ObjectBlocks(bs, h) == h .. skipTails(bs, h + 1) - 1

\* The heads of the allocated objects.
Heads == { h \in Blocks : blockState[h] = "head" }

\* Object x holds a pointer to (or into) object y.
PointsTo(x, y) ==
    y \in Objects(blockState, { mem[a] : a \in ObjectAddrs(blockState, x) })

\* A root holds a pointer to (or into) object x.
RootReferenced(x) == x \in Objects(blockState, { mem[a] : a \in RootAddrs })

\* After a cycle no block is in state mark.
NoMarkAfterCycle == \A b \in Blocks : afterSweep'[b] # "mark"

\* After a cycle the objects that were not reachable are free.
GarbageFreed ==
    \A h \in Heads \ Reachable :
        \A b \in ObjectBlocks(blockState, h) : afterSweep'[b] = "free"

\* A chain a -> b -> c survives a cycle that starts with a root on a.
ChainSurvives ==
    \A a, b, c \in Heads :
        (a # b /\ b # c /\ a # c /\ PointsTo(a, b) /\ PointsTo(b, c) /\ RootReferenced(a))
            => afterSweep'[a] = "head" /\ afterSweep'[b] = "head" /\ afterSweep'[c] = "head"

\* C12: after every GC cycle no block is in state mark and every object that
\* was not reachable from a root when the cycle started has all its blocks
\* free; a chain A -> B -> C survives the cycle while a root references A
\* (and, as unreachable objects, the three are free after a cycle that
\* starts with none of them reachable).
C12_CycleOutcome ==
    [][Collected => NoMarkAfterCycle /\ GarbageFreed /\ ChainSurvives]_vars

\* What a cycle does achieve: no mark is left and the garbage is freed.
SweepOutcome == [][Collected => NoMarkAfterCycle /\ GarbageFreed]_vars

\* What alloc enters, in order, and what a direct call of GC enters.
AllocOrder == << "alloc", "GC", "markGlobals", "markRoots", "sweep", "heapAlloc" >>
GCOrder == << "GC", "markGlobals", "markRoots", "sweep" >>

\* The functions entered so far are those of alloc or of GC, in order, and
\* heapAlloc is entered with the whole cycle done and no block marked.
CycleBeforeHeapAlloc ==
    /\ IsPrefix(rtCall.entered, AllocOrder) \/ IsPrefix(rtCall.entered, GCOrder)
    /\ rtCall.at = "heapAlloc" =>
          /\ rtCall.entered = SubSeq(AllocOrder, 1, 5)
          /\ \A b \in Blocks : blockState[b] # "mark"
    /\ rtCall.at = "program" =>
          rtCall.entered \in { << >>, AllocOrder, GCOrder }

\* A free block becomes a head or a tail in heapAlloc only.
ClaimedInHeapAlloc ==
    (\E b \in Blocks : blockState[b] = "free" /\ blockState'[b] \in {"head", "tail"})
        => rtCall.at = "heapAlloc"

\* C13: every alloc(size) runs one whole collection cycle, markGlobals, then
\* markRoots over the stack range, then sweep, and heapAlloc claims blocks
\* only after the sweep; heapAlloc is never entered with a block in state
\* mark.
C13_CollectBeforeAlloc == []CycleBeforeHeapAlloc /\ [][ClaimedInHeapAlloc]_vars

\* alloc is about to enter heapAlloc after a cycle that marked an object
\* and freed another.
C13_Witness ==
    /\ rtCall.at = "heapAlloc"
    /\ \E b \in Blocks : blockState[b] = "head"
    /\ \E b \in Blocks : blockState[b] = "free" /\ mem[address(b)] # 0

\* C21: in the mark phase the state mark is written only to a block whose
\* state was head; a root that points into a free block does not turn it
\* into mark, and no sweep turns a free block into a head.
C21_OnlyHeadsMarked ==
    [][Collected =>
          LET marked == markRoots(markGlobals(blockState), getCurrentStackPointer,
                                  stackTop)
          IN  \A b \in Blocks :
                 /\ marked[b] = "mark" => blockState[b] = "head"
                 /\ blockState[b] = "free" => afterSweep'[b] = "free"]_vars

\* The slots markGlobals is to take as root candidates: slot i of the
\* tracked region with bit (i mod 8) of bitmap byte floor(i / 8) set.
RootCandidates ==
    { SlotAddr(i) : i \in { i \in 0 .. scanned.length - 1 :
          (trackedGlobalsBitmap[(i \div 8) + 1] \div 2 ^ (i % 8)) % 2 = 1 } }

\* C14: markGlobals reads a global slot as a root candidate exactly when the
\* slot is in the tracked region and its bitmap bit is set; a block is marked
\* only through such a slot, never through a slot with a clear bit; no
\* bitmap byte from ceil(trackedGlobalsLength / 8) on and no slot outside the
\* tracked region is read.
C14_TrackedSlotsOnly ==
    scanned.ran =>
       /\ scanned.slots = RootCandidates
       /\ \A b \in Blocks :
             blockState[b] = "mark" <=>
                \E a \in RootCandidates :
                   /\ addressOnHeap(mem[a])
                   /\ findHead(blockState, blockFromAddr(mem[a])) = b
       /\ \A k \in scanned.bytes : k < (scanned.length + 7) \div 8
       /\ \A a \in scanned.slots :
             a \in { SlotAddr(i) : i \in 0 .. scanned.length - 1 }

\* markGlobals ran on a region of more than 8 slots: a slot of the second
\* bitmap byte was a root and its object is marked, and a bit past the
\* region is set.
C14_Witness ==
    /\ scanned.ran
    /\ scanned.length > 8
    /\ \E i \in 8 .. scanned.length - 1 :
         /\ SlotAddr(i) \in scanned.slots
         /\ addressOnHeap(mem[SlotAddr(i)])
         /\ blockState[findHead(blockState, blockFromAddr(mem[SlotAddr(i)]))] = "mark"
    /\ \E i \in BitIndices : i >= scanned.length /\ BitSet(trackedGlobalsBitmap, i)

\* The heads of the objects the markRoots calls on the stack are scanning.
Scanning == { findHead(blockState, blockFromAddr(marking.frames[k].end - WordSize)) :
                k \in { k \in DOMAIN marking.frames :
                           marking.frames[k].end > poolStart } }

\* An object is marked before its payload is scanned, is scanned once at
\* most, and is scanned exactly when it is marked; a scan stays within the
\* object; a marked object stays marked.
ScannedOnce ==
    /\ \A h \in Blocks : marking.scans[h] <= 1
    /\ \A h \in Blocks : marking.scans[h] = 1 <=> blockState[h] = "mark"
    /\ \A h \in Scanning : blockState[h] = "mark"
    /\ \A k \in DOMAIN marking.frames :
          /\ marking.frames[k].addr <= marking.frames[k].end
          /\ (marking.frames[k].end - marking.frames[k].addr) % WordSize = 0

\* When the mark phase is over, the block states are those markGlobals and
\* markRoots compute.
MarkedAsComputed ==
    marking.at = "marked" =>
        blockState = markRoots(markGlobals(marking.start), getCurrentStackPointer,
                               stackTop)

\* C20: the mark phase terminates for every heap object graph, cyclic and
\* self-referencing objects included: a head is set to mark before its
\* payload is scanned and a marked block is not scanned again, so that the
\* payload of every object is scanned at most once in a cycle.
C20_MarkTerminates ==
    /\ <>(marking.at = "marked")
    /\ [](ScannedOnce /\ MarkedAsComputed)

\* The mark phase is over on a heap with an object that points to itself
\* and to a second object, which points back into the first; both are
\* marked.
C20_Witness ==
    /\ marking.at = "marked"
    /\ \E a, c \in Blocks :
         /\ a # c
         /\ blockState[a] = "mark" /\ blockState[c] = "mark"
         /\ mem[address(a)] = address(a)
         /\ \E w \in ObjectAddrs(blockState, a) : mem[w] = address(c)
         /\ mem[address(c)] \in ObjectAddrs(blockState, a)

\* C15: on WebAssembly heapEnd is heapStart + 65536, one page above
\* __heap_base, for every value of __heap_base.
C15_OnePageAboveHeapBase ==
    heap.target = "wasm" => heap.heapEnd = heap.heapStart + 65536

\* What does hold: heapEnd is the first page boundary at or above heapStart.
WasmHeapEndsAtPageBoundary ==
    heap.target = "wasm" =>
       /\ heap.heapEnd % wasmPageSize = 0
       /\ heap.heapStart <= heap.heapEnd
       /\ heap.heapEnd - heap.heapStart < wasmPageSize

\* init left a heap whose metadata covers its blocks, with an aligned pool
\* inside the heap behind the metadata and all blocks free (the state of the
\* last block is in the highest metadata byte that is used).
HeapWellFormed ==
    /\ heap.metadataSize * blocksPerStateByte >= heap.numBlocks
    /\ heap.poolStart % bytesPerBlock = 0
    /\ heap.heapStart + heap.metadataSize <= heap.poolStart
    /\ heap.poolEnd % bytesPerBlock = 0
    /\ heap.poolStart <= heap.poolEnd
    /\ heap.poolEnd <= heap.heapEnd
    /\ heap.numBlocks * bytesPerBlock = heap.poolEnd - heap.poolStart
    /\ heap.numBlocks > 0 => StateAfterInit(heap, heap.numBlocks - 1) = "free"

\* C16 as stated: for every heapStart <= heapEnd, init fails with the
\* metadata-size panic or completes with a well-formed heap.
C16_InitFailsFastOrWellFormed ==
    heap.heapStart <= heap.heapEnd /\ heap.at = "ready" => HeapWellFormed

\* C16, amended: with the sanity checks compiled in (gcAsserts), init fails
\* with the metadata-size panic exactly when the metadata is too small for
\* the blocks, and otherwise completes with a well-formed heap; without
\* them it never panics.
C16_WellFormedWhenAsserted ==
    heap.heapStart <= heap.heapEnd =>
       /\ heap.at = "ready" /\ heap.gcAsserts => HeapWellFormed
       /\ heap.at = "panicked" =>
             /\ heap.gcAsserts
             /\ heap.metadataSize * blocksPerStateByte < heap.numBlocks
       /\ heap.at \in {"ready", "panicked"} =>
             heap = init([heap EXCEPT !.at = "linked", !.metadataSize = 0,
                                      !.poolStart = 0, !.poolEnd = 0,
                                      !.numBlocks = 0])

\* init completed, with the checks compiled in, on a heap that has blocks,
\* and elsewhere it panicked.
C16_Witness ==
    /\ heap.at = "ready"
    /\ heap.gcAsserts
    /\ heap.numBlocks > 0
    /\ heap.heapStart % bytesPerBlock # 0

-----------------------------------------------------------------------------
(***************************************************************************)
(* Properties of Compiler.Optimize                                         *)
(***************************************************************************)

Lowerings == {"lower_interfaces", "lower_func_values", "lower_goroutines"}

\* Optimize has got past the call of c.LowerGoroutines().
PastLowering == "lower_goroutines" \in Range(steps)

\* The passes run after the first function-pass run and before the first
\* verification.
BetweenFuncPassesAndVerify ==
    SubSeq(steps, FirstIndex(steps, "function-passes") + 1,
                  FirstIndex(steps, "verify") - 1)

\* The passes run before the first verification.
BeforeVerify == SubSeq(steps, 1, FirstIndex(steps, "verify") - 1)

OrderAtOptLevelAbove0 ==
    << "global-optimizer", "global-dce", "constant-propagation",
       "aggressive-dce", "function-attrs",
       "optimize_maps", "optimize_string_to_bytes", "optimize_allocs",
       "lower_interfaces", "lower_func_values",
       "global-optimizer", "global-dce", "constant-propagation",
       "aggressive-dce", "function-attrs",
       "optimize_allocs", "optimize_string_to_bytes",
       "lower_isnil", "lower_goroutines" >>

\* C1: at opt_level > 0 the passes between the first function-pass run and
\* the verification are exactly the listed ones in the listed order (a run
\* that has not got that far has run a prefix of them), and so every
\* optimize_allocs and optimize_string_to_bytes run comes after a
\* function-attrs run that is later than every lowering run before it.
C1_SandwichOrder ==
    cfg.optLevel > 0 =>
      /\ IsPrefix(BetweenFuncPassesAndVerify, OrderAtOptLevelAbove0)
      /\ PastLowering => BetweenFuncPassesAndVerify = OrderAtOptLevelAbove0
      /\ \A i \in DOMAIN steps :
           steps[i] \in {"optimize_allocs", "optimize_string_to_bytes"} =>
             \E j \in 1 .. i - 1 :
               /\ steps[j] = "function-attrs"
               /\ \A k \in 1 .. i - 1 : steps[k] \in Lowerings => k < j

\* A run at opt_level > 0 that returned success: both optimize_allocs runs
\* and both module pass manager runs have happened.
C1_Witness ==
    /\ cfg.optLevel > 0
    /\ pc = "done"
    /\ result = "ok"
    /\ Count(steps, "optimize_allocs") = 2
    /\ Count(steps, "function-attrs") = 2

\* C3 as stated: whenever Optimize returns success, the module as it is then
\* is accepted by the verifier.
C3_FinalModuleVerifies == (pc = "done" /\ result = "ok") => valid

\* C3 amended: whenever Optimize returns success, the verifier accepted the
\* module as it was after the lowerings, and when the GC is precise it also
\* accepts the final module (nothing rewrites it after the second
\* verification).
C3_VerifiedWhereChecked ==
    (pc = "done" /\ result = "ok") =>
      /\ Len(verdicts) >= 1
      /\ verdicts[1] = "nil"
      /\ cfg.gcPrecise => (Len(verdicts) = 2 /\ verdicts[2] = "nil" /\ valid)

\* A successful run with the precise GC, and one without it.
C3_Witness ==
    /\ pc = "done"
    /\ result = "ok"
    /\ cfg.gcPrecise
    /\ Len(verdicts) = 2
    /\ valid

FailedAtGoroutines == lgErr # "nil"
FailedAtOptimizations == Len(verdicts) >= 1 /\ verdicts[1] # "nil"
FailedAtGC == Len(verdicts) >= 2 /\ verdicts[2] # "nil"

LaterSteps == {"optsize", "module-passes", "add_globals_bitmap"}

\* C4: once Optimize has returned, its result is the error of
\* lower_goroutines when that returned one, the "optimizations" error when
\* the first verification failed, the "gc" error when (with the precise GC)
\* the verification after the bitmap emitter failed, and success in every
\* other case; after the first two errors no later step has run, and the
\* third is the last step there is.
C4_ErrorCases ==
    /\ result # "none" <=> pc = "done"
    /\ pc = "done" =>
         /\ FailedAtGoroutines => result = lgErr /\ result \in GoroutineErrors
         /\ FailedAtOptimizations => result = ErrOptimizations
         /\ FailedAtGC => result = ErrGC /\ cfg.gcPrecise
         /\ ~(FailedAtGoroutines \/ FailedAtOptimizations \/ FailedAtGC)
              <=> result = "ok"
         /\ result \in GoroutineErrors =>
              /\ steps[Len(steps)] = "lower_goroutines"
              /\ verdicts = << >>
         /\ result = ErrOptimizations => steps[Len(steps)] = "verify"
         /\ result \in GoroutineErrors \cup {ErrOptimizations} =>
              /\ Range(steps) \cap LaterSteps = {}
              /\ Count(steps, "function-passes") = 1
         /\ result = ErrGC =>
              /\ steps[Len(steps)] = "verify"
              /\ steps[Len(steps) - 1] = "add_globals_bitmap"

\* Each of the three errors has been returned, by some run.
C4_Witness ==
    /\ pc = "done"
    /\ result = ErrGC
    /\ cfg.gcPrecise
    /\ verdicts = << "nil", "invalid module" >>

\* C5: at every opt_level the lowerings run before the first verification
\* are lower_interfaces, lower_func_values, lower_goroutines, once each and
\* in that order, none runs later, and at opt_level 0 none of the Go
\* rewrites and none of the five module passes runs.
C5_LoweringsAtEveryLevel ==
    /\ IsPrefix(SelectSeq(steps, LAMBDA x : x \in Lowerings),
                << "lower_interfaces", "lower_func_values", "lower_goroutines" >>)
    /\ (pc \in {"verify", "done"} =>
          SelectSeq(BeforeVerify, LAMBDA x : x \in Lowerings)
            = << "lower_interfaces", "lower_func_values", "lower_goroutines" >>)
    /\ cfg.optLevel = 0 =>
         Range(steps) \cap
           { "optimize_maps", "optimize_string_to_bytes", "optimize_allocs",
             "lower_isnil", "global-optimizer", "global-dce",
             "constant-propagation", "aggressive-dce", "function-attrs" } = {}

\* A run at opt_level 0 that got through the verification and returned.
C5_Witness ==
    /\ cfg.optLevel = 0
    /\ pc = "done"
    /\ result = "ok"
    /\ Count(steps, "lower_goroutines") = 1


=============================================================================
